---- MODULE Spec2Model ----
(***************************************************************************)
(* Image Relevance Selector of viral-nexus: the tokenizer, the Jaccard     *)
(* overlap, the scorer and selectPreviewImage with its result cache, in    *)
(* the two implementations the repository carries:                         *)
(*   "main"    src/src/utils/imageSelector.js                              *)
(*   "variant" src/unnamed/part_002 (threshold option, localStorage mirror)*)
(*                                                                         *)
(* Text is a sequence of one-character strings, so that lowercasing,       *)
(* punctuation stripping, splitting and URL parsing are computed character *)
(* by character.  Scores are exact rationals scaled by Unit.               *)
(***************************************************************************)
EXTENDS Integers, Sequences, FiniteSets, TLC

VARIABLES
    impl,      \* which implementation is loaded: "main" or "variant"
    engine,    \* the argument order of the engine's sort: see sort
    browser,   \* whether window.localStorage exists
    cache,     \* selectionCache: cache key -> result
    ls,        \* localStorage items under the img_select_ prefix: key -> item
    calls,     \* number of operations so far
    inp,       \* the last operation and its arguments
    out,       \* what the last operation returned
    hist,      \* record -> result of its first call with caching (history)
    args       \* the caller's argument objects as the last operation left them

vars == <<impl, engine, browser, cache, ls, calls, inp, out, hist, args>>

----------------------------------------------------------------------------
(* JavaScript values that are not strings.  Each is a sequence holding one *)
(* multi-character pseudo-character, so it differs from every text.        *)

Undef == <<"undefined">>
Null == <<"null">>
Num5 == <<"number 5">>

\* what placeholders["constructor"] evaluates to: Object, inherited through
\* the prototype chain of the object literal, a truthy non-string
ObjectFunction == <<"function Object">>

NonStrings == {Undef, Null, Num5, ObjectFunction}

\* typeof v === 'string'
IsString(v) == v \notin NonStrings

\* ToBoolean(v): undefined, null and "" are falsy; the number 5 is truthy
Truthy(v) == v \notin {Undef, Null, <<>>}

\* String(v)
ToStr(v) ==
    CASE v = Undef -> <<"u","n","d","e","f","i","n","e","d">>
      [] v = Null -> <<"n","u","l","l">>
      [] v = Num5 -> <<"5">>
      [] OTHER -> v

----------------------------------------------------------------------------
(* Characters *)

UpperSeq == <<"A","B","C","D","E","F","G","H","I","J","K","L","M","N","O","P","Q","R","S","T","U","V","W","X","Y","Z">>
LowerSeq == <<"a","b","c","d","e","f","g","h","i","j","k","l","m","n","o","p","q","r","s","t","u","v","w","x","y","z">>
DigitSeq == <<"0","1","2","3","4","5","6","7","8","9">>

Range(s) == {s[i] : i \in DOMAIN s}

IsUpper(c) == c \in Range(UpperSeq)
IsLetter(c) == c \in Range(UpperSeq) \cup Range(LowerSeq)
IsDigit(c) == c \in Range(DigitSeq)

\* \w of a JavaScript regular expression
IsWordChar(c) == IsLetter(c) \/ IsDigit(c) \/ c = "_"

\* \s of a JavaScript regular expression (the characters the model uses)
IsSpace(c) == c \in {" ", "\t", "\n"}

\* String.prototype.toLowerCase, one character
LowerChar(c) ==
    IF IsUpper(c)
    THEN LowerSeq[CHOOSE i \in DOMAIN UpperSeq : UpperSeq[i] = c]
    ELSE c

\* every letter's case swapped: a faulty case folding that C16 must reject
toLowerCase_SwapsCase(s) ==
    [i \in DOMAIN s |->
        IF IsUpper(s[i]) THEN LowerChar(s[i])
        ELSE IF s[i] \in Range(LowerSeq)
        THEN UpperSeq[CHOOSE k \in DOMAIN LowerSeq : LowerSeq[k] = s[i]]
        ELSE s[i]]

toLowerCase(s) == [i \in DOMAIN s |-> LowerChar(s[i])]

\* the replacement left out, so that punctuation stays in the text: a faulty
\* step that C15 must reject
ReplaceMain_KeepsPunctuation(s) == s

\* s.replace(/[^\w\s-]/g, ' ')
ReplaceMain(s) ==
    [i \in DOMAIN s |->
        IF IsWordChar(s[i]) \/ IsSpace(s[i]) \/ s[i] = "-" THEN s[i] ELSE " "]

\* s.replace(/[^\w\s]/g, ' ')
ReplaceVariant(s) ==
    [i \in DOMAIN s |-> IF IsWordChar(s[i]) \/ IsSpace(s[i]) THEN s[i] ELSE " "]

\* s.split(sep) for a one-character separator class: every separator
\* character ends a piece, so adjacent separators give empty pieces
RECURSIVE SplitEachFrom(_, _, _, _)
SplitEachFrom(s, seps, i, cur) ==
    IF i > Len(s) THEN <<cur>>
    ELSE IF s[i] \in seps
         THEN <<cur>> \o SplitEachFrom(s, seps, i + 1, <<>>)
         ELSE SplitEachFrom(s, seps, i + 1, Append(cur, s[i]))

SplitEach(s, seps) == SplitEachFrom(s, seps, 1, <<>>)

\* s.split(/\s+/): a maximal run of whitespace is one separator
RECURSIVE SplitSpaceFrom(_, _, _)
SplitSpaceFrom(s, i, cur) ==
    IF i > Len(s) THEN <<cur>>
    ELSE IF IsSpace(s[i])
         THEN IF i > 1 /\ IsSpace(s[i - 1])
              THEN SplitSpaceFrom(s, i + 1, cur)
              ELSE <<cur>> \o SplitSpaceFrom(s, i + 1, <<>>)
         ELSE SplitSpaceFrom(s, i + 1, Append(cur, s[i]))

SplitSpace(s) == SplitSpaceFrom(s, 1, <<>>)

\* String.prototype.trim
RECURSIVE trim(_)
trim(s) ==
    IF s = <<>> THEN s
    ELSE IF IsSpace(s[1]) THEN trim(Tail(s))
    ELSE IF IsSpace(s[Len(s)]) THEN trim(SubSeq(s, 1, Len(s) - 1))
    ELSE s

\* array.join(sep) over texts
RECURSIVE Join(_, _)
Join(items, sep) ==
    IF items = <<>> THEN <<>>
    ELSE IF Len(items) = 1 THEN items[1]
    ELSE items[1] \o sep \o Join(Tail(items), sep)

----------------------------------------------------------------------------
(* The texts of the model's records *)

UrlArticle == <<"h","t","t","p","s",":","/","/","x","/","a">>
UrlOther == <<"h","t","t","p","s",":","/","/","x","/","b">>
UrlCatJpg == <<"h","t","t","p","s",":","/","/","x","/","c","a","t",".","j","p","g">>
UrlCatPng == <<"h","t","t","p","s",":","/","/","x","/","c","a","t",".","p","n","g">>
UrlDog == <<"h","t","t","p","s",":","/","/","x","/","d","o","g",".","j","p","g">>
UrlAnt == <<"h","t","t","p","s",":","/","/","x","/","a","n","t",".","j","p","g">>
UrlBee == <<"h","t","t","p","s",":","/","/","x","/","b","e","e",".","j","p","g">>
UrlOg == <<"h","t","t","p","s",":","/","/","x","/","o","g",".","j","p","g">>
UrlTw == <<"h","t","t","p","s",":","/","/","x","/","t","w",".","j","p","g">>
UrlPage == <<"h","t","t","p","s",":","/","/","x","/","p","a","g","e",".","j","p","g">>
UrlThumb == <<"h","t","t","p","s",":","/","/","x","/","t","h","u","m","b",".","j","p","g">>

TitleCat == <<"C","a","t"," ","N","e","w","s">>
AltBigRedCat == <<"B","i","g"," ","r","e","d"," ","c","a","t">>
KeywordCat == <<"C","a","t">>

ModelUrls == { UrlArticle, UrlOther, UrlCatJpg, UrlCatPng, UrlDog, UrlAnt, UrlBee,
               UrlOg, UrlTw, UrlPage, UrlThumb }

ModelTexts == { TitleCat, KeywordCat, AltBigRedCat }

\* texts of the scoreImage calls: an alt text, and keywords of which one is a
\* stop-word and one too short to give a token
AltCatJpg == <<"c","a","t"," ","j","p","g">>
KeywordDog == <<"D","o","g">>
KeywordThe == <<"t","h","e">>
KeywordTv == <<"T","V">>
ScoreTexts == { AltCatJpg, KeywordDog, KeywordThe, KeywordTv }

----------------------------------------------------------------------------
(* Tokenizer *)

STOPWORDS ==
    { <<"a">>, <<"a","n">>, <<"a","n","d">>, <<"a","r","e">>, <<"a","s">>, <<"a","t">>, <<"b","e">>, <<"b","y">>,
      <<"f","o","r">>, <<"f","r","o","m">>, <<"h","a","s">>, <<"h","e">>, <<"i","n">>, <<"i","s">>, <<"i","t">>, <<"i","t","s">>,
      <<"o","f">>, <<"o","n">>, <<"t","h","a","t">>, <<"t","h","e">>, <<"t","o">>, <<"w","a","s">>, <<"w","i","l","l">>, <<"w","i","t","h">> }

STOP_WORDS ==
    STOPWORDS \cup
    { <<"t","h","i","s">>, <<"b","u","t">>, <<"t","h","e","y">>, <<"h","a","v","e">>, <<"h","a","d">>, <<"w","h","a","t">>, <<"w","h","e","n">>,
      <<"w","h","e","r","e">>, <<"w","h","o">>, <<"w","h","i","c","h">>, <<"w","h","y">>, <<"h","o","w">>, <<"o","v","e","r">> }

\* the pieces of a split text that pass
\* .filter(token => token.length > 2 && !stop.has(token)), as a Set
Kept(pieces, stop) == {w \in Range(pieces) : Len(w) > 2 /\ w \notin stop}

\* .map(token => token.trim())
TrimEach(pieces) == [i \in DOMAIN pieces |-> trim(pieces[i])]

\* tokenize of the main implementation, computed on the characters
tokenizeChars(text) ==
    IF ~Truthy(text) \/ ~IsString(text) THEN {}
    ELSE Kept(TrimEach(SplitSpace(ReplaceMain(toLowerCase(text)))), STOPWORDS)

\* normalizeTokens of the variant on a non-array input that is truthy:
\* String(input) is lowercased, stripped, split and filtered
normalizeText(text) ==
    Kept(SplitSpace(ReplaceVariant(toLowerCase(ToStr(text)))), STOP_WORDS)

\* normalizeTokens of the variant on a non-array input, computed on the
\* characters
normalizeTokens(input) == IF ~Truthy(input) THEN {} ELSE normalizeText(input)

(* The values the model passes to the tokenizers: the texts and URLs of its *)
(* records, the values that are no strings, and for the variant the texts   *)
(* it builds with template literals and join(' ').  The token sets are      *)
(* computed once from the definitions above and looked up afterwards.       *)
TextValues == ModelTexts \cup ScoreTexts \cup ModelUrls \cup NonStrings \cup {<<>>}

JoinParts == ModelTexts \cup {<<>>, ToStr(Num5)}
JoinedTexts == { a \o <<" ">> \o b : a \in JoinParts, b \in JoinParts }

\* (f @@ <<>> is f as an explicit table, computed once)
TokenizeMemo == [text \in TextValues |-> tokenizeChars(text)] @@ <<>>
NormalizeMemo == [text \in TextValues \cup JoinedTexts |-> normalizeText(text)] @@ <<>>

tokenize(text) == TokenizeMemo[text]

\* normalizeTokens of the variant on a text value: falsy gives the empty set
normalizeValue(v) == IF ~Truthy(v) THEN {} ELSE NormalizeMemo[v]

(* A keywords field is a tagged value: absent, one bare string, or an array *)
(* of values.                                                               *)
KwNone == [tag |-> "undefined", items |-> <<>>]
KwStr(t) == [tag |-> "string", items |-> <<t>>]
KwList(items) == [tag |-> "array", items |-> items]

\* const keywords = linkJson.keywords || [];
\* const keywordArray = Array.isArray(keywords) ? keywords : [keywords];
keywordArrayOf(kw) ==
    CASE kw.tag = "array" -> kw.items
      [] kw.tag = "string" /\ Truthy(kw.items[1]) -> kw.items
      [] OTHER -> <<>>

\* Array.prototype.join element conversion: null and undefined give ''
JoinStr(v) == IF v \in {Undef, Null} THEN <<>> ELSE ToStr(v)

\* normalizeTokens of the variant on a keywords field (linkJson.keywords || [])
normalizeKeywords(kw) ==
    normalizeValue(IF kw.tag = "array"
                   THEN Join([i \in DOMAIN kw.items |-> JoinStr(kw.items[i])], <<" ">>)
                   ELSE IF kw.tag = "string" THEN kw.items[1]
                   ELSE <<>>)

----------------------------------------------------------------------------
(* Scores are rationals scaled by Unit, which every denominator the model   *)
(* produces divides: token-set unions and keyword counts of 1..10, the      *)
(* weights' tenths and twentieths, the epsilons' ten-thousandths and the    *)
(* variant's pixels/1000000 for pixel counts that are multiples of 100.     *)

Unit == 126 * 100000

\* WEIGHTS of the main implementation
WEIGHTS == [filename |-> (6 * Unit) \div 10, altText |-> (3 * Unit) \div 10,
            keywords |-> (4 * Unit) \div 10, resolution |-> Unit \div 10]

\* WEIGHTS of the variant
WEIGHTS_V == [filename |-> (6 * Unit) \div 10, altCaption |-> (3 * Unit) \div 10,
              keywordTag |-> (4 * Unit) \div 10, resolution |-> (5 * Unit) \div 100]

RELEVANCE_THRESHOLD == Unit \div 10
SCORE_THRESHOLD == (5 * Unit) \div 100

\* the tie epsilon of the sort comparator: 0.001 (main), 0.0001 (variant)
TieEpsMain == Unit \div 1000
TieEpsVariant == Unit \div 10000

PixelThreshold == 100000
MegaPixel == 1000000

Min(a, b) == IF a < b THEN a ELSE b
Abs(a) == IF a < 0 THEN 0 - a ELSE a

\* v * w for a value v in [0,1] and a weight w, both scaled by Unit; the
\* weights are whole hundredths and the values whole hundredths of Unit
Times(v, w) == (v \div 100) * (w \div (Unit \div 100))

----------------------------------------------------------------------------
(* Similarity *)

\* the overlap as a share of the first set instead of the union: a faulty
\* similarity that C13 must reject
jaccardSimilarity_ShareOfFirst(setA, setB) ==
    IF setA = {} THEN 0
    ELSE (Cardinality(setA \cap setB) * Unit) \div Cardinality(setA)

jaccardSimilarity(setA, setB) ==
    IF setA = {} /\ setB = {} THEN 0
    ELSE LET intersection == setA \cap setB
             union == setA \cup setB
         IN  IF Cardinality(union) > 0
             THEN (Cardinality(intersection) * Unit) \div Cardinality(union)
             ELSE 0

calculateOverlap(set1, set2) ==
    IF set1 = {} \/ set2 = {} THEN 0
    ELSE LET intersection == set1 \cap set2
             union == set1 \cup set2
         IN  IF Cardinality(union) > 0
             THEN (Cardinality(intersection) * Unit) \div Cardinality(union)
             ELSE 0

----------------------------------------------------------------------------
(* new URL(url): the absolute URLs of the form scheme://host[/path][?q][#f] *)
(* parse; a string with no scheme, or with an empty host, makes the         *)
(* constructor throw.  Paths of the model need no percent-encoding and hold *)
(* no dot segments, so pathname is the path as written.                     *)

\* index of the first character of s at or after from that is in set,
\* Len(s) + 1 when there is none
FirstIdx(s, from, set) ==
    IF \E i \in from..Len(s) : s[i] \in set
    THEN CHOOSE i \in from..Len(s) :
             s[i] \in set /\ \A j \in from..(i - 1) : s[j] \notin set
    ELSE Len(s) + 1

SchemeEnd(url) ==
    LET k == FirstIdx(url, 1, {":"})
    IN  IF k >= 2 /\ k <= Len(url) /\ \A j \in 1..(k - 1) : IsLetter(url[j])
        THEN k ELSE 0

\* where the path, query or fragment starts when the scheme ends at k
PathStart(url, k) == FirstIdx(url, k + 3, {"/", "?", "#"})

\* "//" and a host that is not empty follow the scheme that ends at k
ParsesAt(url, k) ==
    /\ k > 0
    /\ Len(url) >= k + 2
    /\ url[k + 1] = "/"
    /\ url[k + 2] = "/"
    /\ PathStart(url, k) > k + 3

\* new URL(url) does not throw
UrlParses(url) == IsString(url) /\ ParsesAt(url, SchemeEnd(url))

PathnameAt(url, p) ==
    IF p > Len(url) \/ url[p] # "/" THEN <<"/">>
    ELSE SubSeq(url, p, FirstIdx(url, p, {"?", "#"}) - 1)

\* urlObj.pathname of a URL that parses
Pathname(url) == PathnameAt(url, PathStart(url, SchemeEnd(url)))

Last(seq) == seq[Len(seq)]

----------------------------------------------------------------------------
(* URL tokens *)

\* the tokens of one path component: of the component itself and of its
\* pieces between hyphens and underscores
PartTokens(part) ==
    tokenizeChars(part)
    \cup UNION { tokenizeChars(subpart) : subpart \in Range(SplitEach(part, {"-", "_"})) }

\* urlObj.pathname.split('/').filter(p => p.length > 0), as a set
PathParts(pathname) == {q \in Range(SplitEach(pathname, {"/"})) : Len(q) > 0}

\* extractUrlTokens of the main implementation
urlTokensOf(url) ==
    IF ~Truthy(url) \/ ~IsString(url) THEN {}
    ELSE IF UrlParses(url)
    THEN UNION { PartTokens(part) : part \in PathParts(Pathname(url)) }
    ELSE tokenizeChars(url)

\* s.split('/').pop().split('.')[0]
FileStem(s) == SplitEach(Last(SplitEach(s, {"/"})), {"."})[1]

\* extractUrlTokens of the variant throws when url is truthy but no string:
\* new URL(url) throws, and url.split in the catch block throws again
extractUrlTokensThrowsV(url) == Truthy(url) /\ ~IsString(url)

\* pathname + ' ' + filename
PathAndStem(pathname) == pathname \o <<" ">> \o FileStem(pathname)

\* extractUrlTokens of the variant, for a url that does not make it throw
urlTokensOfV(url) ==
    IF ~Truthy(url) THEN {}
    ELSE normalizeTokens(IF UrlParses(url) THEN PathAndStem(Pathname(url))
                         ELSE FileStem(url))

\* the URL tokens of the model's URLs, computed once and looked up afterwards
UrlValues == ModelUrls \cup NonStrings \cup {<<>>}

UrlTokenMemo == [url \in UrlValues |-> urlTokensOf(url)] @@ <<>>
UrlTokenMemoV == [url \in ModelUrls \cup {<<>>, Undef, Null} |-> urlTokensOfV(url)] @@ <<>>

extractUrlTokens(url) == UrlTokenMemo[url]

extractUrlTokensV(url) == UrlTokenMemoV[url]

----------------------------------------------------------------------------
(* Records.  An entry of an images array is an object, null or undefined;   *)
(* a width or height of 0 stands for an absent one (both are falsy).        *)

Img(url, alt, caption, width, height, keywords) ==
    [kind |-> "object", url |-> url, alt |-> alt, caption |-> caption,
     width |-> width, height |-> height, keywords |-> keywords]

NullEntry == [kind |-> "null"]
UndefEntry == [kind |-> "undefined"]

Candidate(url, alt, caption, width, height, keywords, source) ==
    [url |-> url, alt |-> alt, caption |-> caption, width |-> width,
     height |-> height, keywords |-> keywords, source |-> source]

\* { url: ..., source: ... }
BareCandidate(url, source) == Candidate(url, Undef, Undef, 0, 0, KwNone, source)

NoMeta == [present |-> FALSE, ogImage |-> Undef, twitterImage |-> Undef]
Meta(og, tw) == [present |-> TRUE, ogImage |-> og, twitterImage |-> tw]

NoPage == [present |-> FALSE, images |-> <<>>, ogImage |-> Undef, twitterImage |-> Undef]
Page(images, og, tw) ==
    [present |-> TRUE, images |-> images, ogImage |-> og, twitterImage |-> tw]

\* HasUrl without the url test: a faulty filter that C10 must reject
HasUrl_AnyObject(img) == img.kind = "object"

\* img && img.url
HasUrl(img) == img.kind = "object" /\ Truthy(img.url)

----------------------------------------------------------------------------
(* Scorer *)

\* the tokens extractLinkTokens adds for the title and for one keyword
TitleTokens(title) == IF Truthy(title) THEN tokenize(title) ELSE {}
KeywordTokens(kw) == IF Truthy(kw) /\ IsString(kw) THEN tokenize(kw) ELSE {}

\* extractLinkTokens
extractLinkTokens(linkJson) ==
    TitleTokens(linkJson.title)
    \cup UNION { KeywordTokens(kw) : kw \in Range(keywordArrayOf(linkJson.keywords)) }

\* the alt and caption tokens scoreImage collects in altTokens
AltTokens(image) ==
    UNION { IF Truthy(text) THEN tokenize(text) ELSE {} : text \in {image.alt, image.caption} }

\* keywordMatches counted for the URL tokens alone: a faulty test that C27
\* must reject
KeywordMatched_UrlOnly(kwTokens, urlTokens, altTokens) == kwTokens \cap urlTokens # {}

\* urlMatch || altMatch for the tokens of one keyword
KeywordMatched(kwTokens, urlTokens, altTokens) ==
    (kwTokens \cap urlTokens # {}) \/ (kwTokens \cap altTokens # {})

\* keywordMatches after the forEach over keywordArray
KeywordMatches(keywordArray, urlTokens, altTokens) ==
    Cardinality({ i \in DOMAIN keywordArray :
                    KeywordMatched(tokenize(keywordArray[i]), urlTokens, altTokens) })

\* (keywordMatches / keywordArray.length) * WEIGHTS.keywords, when there are keywords
KeywordScore(matches, count) ==
    IF count > 0 THEN Times((matches * Unit) \div count, WEIGHTS.keywords) ELSE 0

\* the bonus awarded from the pixel threshold on (pixels >= 100000): a faulty
\* bonus that C17 must reject
ResolutionBonus_FromThresholdOn(image) ==
    IF image.width # 0 /\ image.height # 0
       /\ image.width * image.height >= PixelThreshold
    THEN WEIGHTS.resolution ELSE 0

\* the resolution bonus of the main implementation
ResolutionBonus(image) ==
    IF image.width # 0 /\ image.height # 0
       /\ image.width * image.height > PixelThreshold
    THEN WEIGHTS.resolution ELSE 0

\* the sum clamped to 1: a faulty sum that C26 must reject
ScoreFrom_Clamped(image, urlTokens, altTokens, linkTokens, keywordArray) ==
    Min(Unit,
        Times(jaccardSimilarity(urlTokens, linkTokens), WEIGHTS.filename)
        + Times(jaccardSimilarity(altTokens, linkTokens), WEIGHTS.altText)
        + KeywordScore(KeywordMatches(keywordArray, urlTokens, altTokens), Len(keywordArray))
        + ResolutionBonus(image))

\* the sum scoreImage builds from the token sets it has computed
ScoreFrom(image, urlTokens, altTokens, linkTokens, keywordArray) ==
    Times(jaccardSimilarity(urlTokens, linkTokens), WEIGHTS.filename)
    + Times(jaccardSimilarity(altTokens, linkTokens), WEIGHTS.altText)
    + KeywordScore(KeywordMatches(keywordArray, urlTokens, altTokens), Len(keywordArray))
    + ResolutionBonus(image)

\* scoreImage of the main implementation
scoreImage(image, linkTokens, keywordArray) ==
    ScoreFrom(image, extractUrlTokens(IF Truthy(image.url) THEN image.url ELSE <<>>),
              AltTokens(image), linkTokens, keywordArray)

\* [image.alt || '', image.caption || ''].join(' ')
AltCaptionText(image) ==
    (IF Truthy(image.alt) THEN ToStr(image.alt) ELSE <<>>)
    \o <<" ">>
    \o (IF Truthy(image.caption) THEN ToStr(image.caption) ELSE <<>>)

\* the keyword tag component of the variant
KeywordTagScore(image, keywordTokens) ==
    IF image.keywords.tag = "array"
    THEN Times(calculateOverlap(normalizeKeywords(image.keywords), keywordTokens),
               WEIGHTS_V.keywordTag)
    ELSE 0

\* Math.min(pixels / 1000000, 1) * WEIGHTS.resolution
ResolutionBoost(image) ==
    IF image.width # 0 /\ image.height # 0
    THEN Times((Min(image.width * image.height, MegaPixel) \div 100)
                   * (Unit \div (MegaPixel \div 100)),
               WEIGHTS_V.resolution)
    ELSE 0

\* the sum the variant's scoreImage builds from the token sets
ScoreFromV(image, urlTokens, altCaptionTokens, combinedTokens, keywordTokens) ==
    Times(calculateOverlap(urlTokens, combinedTokens), WEIGHTS_V.filename)
    + Times(calculateOverlap(altCaptionTokens, combinedTokens), WEIGHTS_V.altCaption)
    + KeywordTagScore(image, keywordTokens)
    + ResolutionBoost(image)

\* scoreImage of the variant (it is called on candidates, which are objects)
scoreImageV(image, titleTokens, keywordTokens) ==
    IF ~Truthy(image.url) THEN 0
    ELSE ScoreFromV(image, extractUrlTokensV(image.url),
                    normalizeValue(AltCaptionText(image)),
                    titleTokens \cup keywordTokens, keywordTokens)

----------------------------------------------------------------------------
(* Candidate collection *)

\* the entries of an images array that pass `img && img.url`, as candidates;
\* the main implementation copies url, alt, caption, width and height, the
\* variant spreads the whole image object
AsCandidate(img, source, spread) ==
    Candidate(img.url, img.alt, img.caption, img.width, img.height,
              IF spread THEN img.keywords ELSE KwNone, source)

EachAsCandidate(kept, source, spread) ==
    [i \in DOMAIN kept |-> AsCandidate(kept[i], source, spread)]

FromImages(images, source, spread) ==
    EachAsCandidate(SelectSeq(images, HasUrl), source, spread)

\* extractImageCandidates of the main implementation
extractImageCandidates(linkJson, pageMeta) ==
    FromImages(linkJson.images, "linkJson", FALSE)
    \o (IF linkJson.meta.present /\ Truthy(linkJson.meta.ogImage)
        THEN <<BareCandidate(linkJson.meta.ogImage, "ogImage")>> ELSE <<>>)
    \o (IF linkJson.meta.present /\ Truthy(linkJson.meta.twitterImage)
           /\ linkJson.meta.twitterImage # linkJson.meta.ogImage
        THEN <<BareCandidate(linkJson.meta.twitterImage, "twitterImage")>> ELSE <<>>)
    \o (IF pageMeta.present THEN FromImages(pageMeta.images, "pageMeta", FALSE) ELSE <<>>)
    \o (IF Truthy(linkJson.thumbnail) /\ IsString(linkJson.thumbnail)
        THEN <<BareCandidate(linkJson.thumbnail, "thumbnail")>> ELSE <<>>)

\* collectCandidates of the variant
collectCandidates(linkJson, pageMeta) ==
    LET meta == IF linkJson.meta.present THEN linkJson.meta
                ELSE [present |-> pageMeta.present, ogImage |-> pageMeta.ogImage,
                      twitterImage |-> pageMeta.twitterImage]
    IN  FromImages(linkJson.images, "json-match", TRUE)
        \o (IF pageMeta.present THEN FromImages(pageMeta.images, "page-first", TRUE) ELSE <<>>)
        \o (IF meta.present /\ Truthy(meta.ogImage)
            THEN <<BareCandidate(meta.ogImage, "meta-og")>> ELSE <<>>)
        \o (IF meta.present /\ Truthy(meta.twitterImage) /\ meta.twitterImage # meta.ogImage
            THEN <<BareCandidate(meta.twitterImage, "meta-og")>> ELSE <<>>)

----------------------------------------------------------------------------
(* Ranking.  String.prototype.localeCompare is modelled on lower-case URLs  *)
(* as the lexicographic order of the collation ranks of their characters;   *)
(* its argument is converted with String().                                 *)

CollationSeq == <<"_","-",",",";",":","!","?",".","'","(",")","[","]","{","}","@","*","/","&","#","%","+","<","=",">","|","~","0","1","2","3","4","5","6","7","8","9","a","b","c","d","e","f","g","h","i","j","k","l","m","n","o","p","q","r","s","t","u","v","w","x","y","z">>

CharRank(c) ==
    IF c \in Range(CollationSeq)
    THEN CHOOSE i \in DOMAIN CollationSeq : CollationSeq[i] = c
    ELSE 0

RECURSIVE CompareFrom(_, _, _)
CompareFrom(a, b, i) ==
    IF i > Len(a) /\ i > Len(b) THEN 0
    ELSE IF i > Len(a) THEN 0 - 1
    ELSE IF i > Len(b) THEN 1
    ELSE IF CharRank(a[i]) < CharRank(b[i]) THEN 0 - 1
    ELSE IF CharRank(a[i]) > CharRank(b[i]) THEN 1
    ELSE CompareFrom(a, b, i + 1)

\* the comparisons of the model's URLs, computed once and looked up afterwards
CompareValues == ModelUrls \cup {ToStr(Num5)}
CompareMemo == [pair \in CompareValues \X CompareValues |-> CompareFrom(pair[1], pair[2], 1)] @@ <<>>

\* a.localeCompare(b) for a string a
localeCompare(a, b) == CompareMemo[<<a, ToStr(b)>>]

Scored(cand, score) == [cand |-> cand, score |-> score]

\* the sort comparator throws a TypeError when the scores tie and a.url is
\* no string (a.url.localeCompare is not a function)
ComparatorThrows(a, b, eps) ==
    Abs(a.score - b.score) < eps /\ ~IsString(a.cand.url)

\* the comparator with the tie-break reversed (-a.url.localeCompare(b.url)):
\* a faulty comparator that C6 must reject
Comparator_LargerUrl(a, b, eps) ==
    IF Abs(a.score - b.score) < eps
    THEN 0 - localeCompare(a.cand.url, b.cand.url)
    ELSE b.score - a.score

\* (a, b) => Math.abs(a.score - b.score) < eps
\*               ? a.url.localeCompare(b.url) : b.score - a.score
Comparator(a, b, eps) ==
    IF Abs(a.score - b.score) < eps
    THEN localeCompare(a.cand.url, b.cand.url)
    ELSE b.score - a.score

(* Array.prototype.sort as a stable insertion sort.  Which of the two       *)
(* elements the engine passes first to the comparator is the engine's       *)
(* choice: eng is "pivotFirst" (comparefn(x, sorted[j])) or "elemFirst"     *)
(* (comparefn(sorted[j], x)).  The result is [ok, seq]; ok is FALSE when a  *)
(* comparator call threw.                                                   *)
FirstArg(x, y, eng) == IF eng = "pivotFirst" THEN x ELSE y
SecondArg(x, y, eng) == IF eng = "pivotFirst" THEN y ELSE x

\* whether the comparator's answer c puts the new element before the other
MovesBefore(c, eng) == IF eng = "pivotFirst" THEN c < 0 ELSE c > 0

RECURSIVE InsertInto(_, _, _, _, _)
InsertInto(sorted, x, j, eps, eng) ==
    IF j = 0 THEN [ok |-> TRUE, seq |-> <<x>> \o sorted]
    ELSE IF ComparatorThrows(FirstArg(x, sorted[j], eng), SecondArg(x, sorted[j], eng), eps)
    THEN [ok |-> FALSE, seq |-> <<>>]
    ELSE IF MovesBefore(Comparator(FirstArg(x, sorted[j], eng),
                                   SecondArg(x, sorted[j], eng), eps), eng)
    THEN InsertInto(sorted, x, j - 1, eps, eng)
    ELSE [ok |-> TRUE,
          seq |-> SubSeq(sorted, 1, j) \o <<x>> \o SubSeq(sorted, j + 1, Len(sorted))]

RECURSIVE SortFrom(_, _, _, _, _)
SortNext(items, i, ins, eps, eng) ==
    IF ins.ok THEN SortFrom(items, i + 1, ins.seq, eps, eng) ELSE ins

SortFrom(items, i, sorted, eps, eng) ==
    IF i > Len(items) THEN [ok |-> TRUE, seq |-> sorted]
    ELSE SortNext(items, i, InsertInto(sorted, items[i], Len(sorted), eps, eng), eps, eng)

\* scoredCandidates.sort(comparator)
sort(items, eps, eng) == SortFrom(items, 1, <<>>, eps, eng)

----------------------------------------------------------------------------
(* Results *)

Result(imageUrl, reason, score) ==
    [status |-> "ok", imageUrl |-> imageUrl, reason |-> reason, score |-> score,
     message |-> "undefined"]

ResultMsg(imageUrl, reason, score, message) ==
    [status |-> "ok", imageUrl |-> imageUrl, reason |-> reason, score |-> score,
     message |-> message]

\* the call did not return: an exception reached the caller
Threw == [status |-> "threw"]

\* `scored_match (${source})`
ScoredMatch(source) ==
    CASE source = "linkJson" -> "scored_match (linkJson)"
      [] source = "ogImage" -> "scored_match (ogImage)"
      [] source = "twitterImage" -> "scored_match (twitterImage)"
      [] source = "pageMeta" -> "scored_match (pageMeta)"
      [] source = "thumbnail" -> "scored_match (thumbnail)"

IsScoredMatch(reason) ==
    reason \in {ScoredMatch(s) : s \in {"linkJson", "ogImage", "twitterImage",
                                         "pageMeta", "thumbnail"}}

PlaceholderNews == <<"h","t","t","p","s",":","/","/","p","l","a","c","e","h","o","l","d",".","c","o","/","2","5","0","x","1","5","0","/","f","f","4","5","0","0","/","w","h","i","t","e","?","t","e","x","t","=","B","r","e","a","k","i","n","g","+","N","e","w","s">>
PlaceholderVideos == <<"h","t","t","p","s",":","/","/","p","l","a","c","e","h","o","l","d",".","c","o","/","2","5","0","x","1","5","0","/","f","f","4","5","0","0","/","w","h","i","t","e","?","t","e","x","t","=","V","i","d","e","o">>
PlaceholderProducts == <<"h","t","t","p","s",":","/","/","p","l","a","c","e","h","o","l","d",".","c","o","/","2","5","0","x","1","5","0","/","f","f","4","5","0","0","/","w","h","i","t","e","?","t","e","x","t","=","P","r","o","d","u","c","t">>
PlaceholderTweets == <<"h","t","t","p","s",":","/","/","p","l","a","c","e","h","o","l","d",".","c","o","/","2","5","0","x","1","5","0","/","f","f","4","5","0","0","/","w","h","i","t","e","?","t","e","x","t","=","T","w","e","e","t">>
PlaceholderMemes == <<"h","t","t","p","s",":","/","/","p","l","a","c","e","h","o","l","d",".","c","o","/","2","5","0","x","1","5","0","/","f","f","4","5","0","0","/","w","h","i","t","e","?","t","e","x","t","=","M","e","m","e">>
PlaceholderTools == <<"h","t","t","p","s",":","/","/","p","l","a","c","e","h","o","l","d",".","c","o","/","2","5","0","x","1","5","0","/","f","f","4","5","0","0","/","w","h","i","t","e","?","t","e","x","t","=","T","o","o","l">>

\* getPlaceholderImage; category is a property name, "undefined" when absent
getPlaceholderImage(category) ==
    CASE category = "news" -> PlaceholderNews
      [] category = "videos" -> PlaceholderVideos
      [] category = "products" -> PlaceholderProducts
      [] category = "tweets" -> PlaceholderTweets
      [] category = "memes" -> PlaceholderMemes
      [] category = "tools" -> PlaceholderTools
      [] category = "constructor" -> ObjectFunction
      [] OTHER -> PlaceholderNews

\* getPlaceholderResult of the variant
getPlaceholderResult(message) == ResultMsg(Null, "placeholder", 0, message)

----------------------------------------------------------------------------
(* Content records *)

Link(url, title, keywords, images, meta, thumbnail, category) ==
    [kind |-> "object", url |-> url, title |-> title, keywords |-> keywords,
     images |-> images, meta |-> meta, thumbnail |-> thumbnail,
     category |-> category]

\* null or undefined, and a value that is no object (a string, a number)
NullLink == [kind |-> "null"]
StringLink == [kind |-> "string"]

\* !linkJson || typeof linkJson !== 'object'
InvalidLink(linkJson) == linkJson.kind # "object"

\* options: threshold is NoThreshold when the caller supplies none
NoThreshold == 0 - 1
Options(useCache, threshold) == [useCache |-> useCache, threshold |-> threshold]

\* JSON.stringify(linkJson): an undefined array element is written as null
\* (an undefined property is omitted, as in the record itself)
Stringify(linkJson) ==
    [linkJson EXCEPT !.images =
        [i \in DOMAIN linkJson.images |->
            IF linkJson.images[i].kind = "undefined" THEN NullEntry
            ELSE linkJson.images[i]]]

\* Map.prototype.set
Put(f, k, v) == [x \in DOMAIN f \cup {k} |-> IF x = k THEN v ELSE f[x]]

\* the key made of the whole record even when it has a url: a faulty key
\* that C30 must reject
CacheKey_WholeRecord(linkJson) == [json |-> Stringify(linkJson)]

\* const cacheKey = linkJson.url || JSON.stringify(linkJson);
CacheKey(linkJson) ==
    IF Truthy(linkJson.url) THEN [url |-> linkJson.url]
    ELSE [json |-> Stringify(linkJson)]

----------------------------------------------------------------------------
(* selectPreviewImage of the main implementation, after validation and the *)
(* cache lookup                                                            *)

\* candidates.map(img => ({ ...img, score: scoreImage(img, linkTokens, keywordArray) }))
ScoredMain(candidates, linkTokens, keywordArray) ==
    [i \in DOMAIN candidates |->
        Scored(candidates[i], scoreImage(candidates[i], linkTokens, keywordArray))]

\* the chain with > in place of >= in the acceptance test: a faulty chain
\* that C3 must reject
DecideMain_Strict(linkJson, candidates, scoredCandidates) ==
    IF Len(scoredCandidates) > 0 /\ scoredCandidates[1].score > RELEVANCE_THRESHOLD
    THEN Result(scoredCandidates[1].cand.url,
                ScoredMatch(scoredCandidates[1].cand.source),
                scoredCandidates[1].score)
    ELSE IF linkJson.meta.present /\ Truthy(linkJson.meta.ogImage)
    THEN Result(linkJson.meta.ogImage, "fallback_og_image", 0)
    ELSE IF linkJson.meta.present /\ Truthy(linkJson.meta.twitterImage)
    THEN Result(linkJson.meta.twitterImage, "fallback_twitter_image", 0)
    ELSE IF Len(candidates) > 0
    THEN Result(candidates[1].url, "fallback_first_image", 0)
    ELSE Result(getPlaceholderImage(linkJson.category), "fallback_placeholder", 0)

\* the chain with the twitter:image branch ahead of the og:image branch: a
\* faulty chain that C5 must reject
DecideMain_TwitterFirst(linkJson, candidates, scoredCandidates) ==
    IF Len(scoredCandidates) > 0 /\ scoredCandidates[1].score >= RELEVANCE_THRESHOLD
    THEN Result(scoredCandidates[1].cand.url,
                ScoredMatch(scoredCandidates[1].cand.source),
                scoredCandidates[1].score)
    ELSE IF linkJson.meta.present /\ Truthy(linkJson.meta.twitterImage)
    THEN Result(linkJson.meta.twitterImage, "fallback_twitter_image", 0)
    ELSE IF linkJson.meta.present /\ Truthy(linkJson.meta.ogImage)
    THEN Result(linkJson.meta.ogImage, "fallback_og_image", 0)
    ELSE IF Len(candidates) > 0
    THEN Result(candidates[1].url, "fallback_first_image", 0)
    ELSE Result(getPlaceholderImage(linkJson.category), "fallback_placeholder", 0)

\* the if / else-if chain that builds result
DecideMain(linkJson, candidates, scoredCandidates) ==
    IF Len(scoredCandidates) > 0 /\ scoredCandidates[1].score >= RELEVANCE_THRESHOLD
    THEN Result(scoredCandidates[1].cand.url,
                ScoredMatch(scoredCandidates[1].cand.source),
                scoredCandidates[1].score)
    ELSE IF linkJson.meta.present /\ Truthy(linkJson.meta.ogImage)
    THEN Result(linkJson.meta.ogImage, "fallback_og_image", 0)
    ELSE IF linkJson.meta.present /\ Truthy(linkJson.meta.twitterImage)
    THEN Result(linkJson.meta.twitterImage, "fallback_twitter_image", 0)
    ELSE IF Len(candidates) > 0
    THEN Result(candidates[1].url, "fallback_first_image", 0)
    ELSE Result(getPlaceholderImage(linkJson.category), "fallback_placeholder", 0)

\* the result after the sort, which may have thrown
AfterSortMain(linkJson, candidates, sorted) ==
    IF ~sorted.ok THEN Threw ELSE DecideMain(linkJson, candidates, sorted.seq)

\* scoredCandidates after the sort: [ok, seq]
RankedMain(linkJson, candidates, eng) ==
    sort(ScoredMain(candidates, extractLinkTokens(linkJson),
                    keywordArrayOf(linkJson.keywords)),
         TieEpsMain, eng)

\* scoring, sorting and deciding on the collected candidates
RankMain(linkJson, candidates, eng) ==
    AfterSortMain(linkJson, candidates, RankedMain(linkJson, candidates, eng))

computeMain(linkJson, pageMeta, eng) ==
    RankMain(linkJson, extractImageCandidates(linkJson, pageMeta), eng)

\* the return without the cache write: a faulty ending that C1 must reject
StoreMain_NoWrite(cacheKey, result, useCache, cch) == [out |-> result, cache |-> cch]

\* the cache write without the useCache test: a faulty ending that C29 must
\* reject
StoreMain_IgnoresFlag(cacheKey, result, useCache, cch) ==
    [out |-> result,
     cache |-> IF result.status = "ok" THEN Put(cch, cacheKey, result) ELSE cch]

\* if (useCache) selectionCache.set(cacheKey, result); return result
StoreMain(cacheKey, result, useCache, cch) ==
    [out |-> result,
     cache |-> IF useCache /\ result.status = "ok" THEN Put(cch, cacheKey, result) ELSE cch]

\* the cache lookup without the useCache test: a faulty lookup that C2 must
\* reject
LookupMain_AlwaysLooks(linkJson, pageMeta, useCache, cacheKey, cch, eng) ==
    IF cacheKey \in DOMAIN cch
    THEN [out |-> cch[cacheKey], cache |-> cch]
    ELSE StoreMain(cacheKey, computeMain(linkJson, pageMeta, eng), useCache, cch)

\* the lookup that computes and stores again on a hit: a faulty lookup that
\* C21 must reject
LookupMain_Recomputes(linkJson, pageMeta, useCache, cacheKey, cch, eng) ==
    StoreMain(cacheKey, computeMain(linkJson, pageMeta, eng), useCache, cch)

\* selectPreviewImage of the main implementation after validation: the cache
\* lookup, or the computation and the cache write
LookupMain(linkJson, pageMeta, useCache, cacheKey, cch, eng) ==
    IF useCache /\ cacheKey \in DOMAIN cch
    THEN [out |-> cch[cacheKey], cache |-> cch]
    ELSE StoreMain(cacheKey, computeMain(linkJson, pageMeta, eng), useCache, cch)

\* selectPreviewImage with the invalid-input result written to the cache: a
\* faulty validation that C8 must reject
selectPreviewImage_CachesInvalid(linkJson, pageMeta, options, cch, eng) ==
    IF InvalidLink(linkJson)
    THEN [out |-> Result(getPlaceholderImage("news"), "invalid_input", 0),
          cache |-> IF options.useCache
                    THEN Put(cch, [json |-> linkJson],
                             Result(getPlaceholderImage("news"), "invalid_input", 0))
                    ELSE cch]
    ELSE LookupMain(linkJson, pageMeta, options.useCache, CacheKey(linkJson), cch, eng)

\* selectPreviewImage of the main implementation: [out, cache]
selectPreviewImage(linkJson, pageMeta, options, cch, eng) ==
    IF InvalidLink(linkJson)
    THEN [out |-> Result(getPlaceholderImage("news"), "invalid_input", 0), cache |-> cch]
    ELSE LookupMain(linkJson, pageMeta, options.useCache, CacheKey(linkJson), cch, eng)

----------------------------------------------------------------------------
(* selectPreviewImage of the variant *)

\* scoreImage runs extractUrlTokens on every candidate: one url that is no
\* string makes the map throw
ScoringThrowsV(candidates) ==
    \E i \in DOMAIN candidates : extractUrlTokensThrowsV(candidates[i].url)

\* candidates.map(img => ({ ...img, score: scoreImage(img, titleTokens, keywordTokens) }))
ScoredVariant(candidates, titleTokens, keywordTokens) ==
    [i \in DOMAIN candidates |->
        Scored(candidates[i], scoreImageV(candidates[i], titleTokens, keywordTokens))]

\* the hits of scoredCandidates.find(c => c.source === source), in order
Hits(scoredCandidates, source) ==
    SelectSeq(scoredCandidates, LAMBDA c : c.cand.source = source)

\* { imageUrl: c.url, reason: source, score: c.score } of the first hit
FoundResult(hits, source) == Result(hits[1].cand.url, source, hits[1].score)

\* the fallback ladder on the sorted candidates
FallbackVariant(jsonHits, metaHits, pageHits) ==
    IF Len(jsonHits) > 0 THEN FoundResult(jsonHits, "json-match")
    ELSE IF Len(metaHits) > 0 THEN FoundResult(metaHits, "meta-og")
    ELSE IF Len(pageHits) > 0 THEN FoundResult(pageHits, "page-first")
    ELSE getPlaceholderResult("No suitable image found")

\* the acceptance test, then the fallback ladder
DecideVariant(scoredCandidates, threshold) ==
    IF scoredCandidates[1].score >= threshold
    THEN Result(scoredCandidates[1].cand.url, scoredCandidates[1].cand.source,
                scoredCandidates[1].score)
    ELSE FallbackVariant(Hits(scoredCandidates, "json-match"),
                         Hits(scoredCandidates, "meta-og"),
                         Hits(scoredCandidates, "page-first"))

\* const { threshold = SCORE_THRESHOLD } = options
ThresholdOf(options) ==
    IF options.threshold = NoThreshold THEN SCORE_THRESHOLD ELSE options.threshold

\* the result after the sort, which may have thrown
AfterSortVariant(sorted, threshold) ==
    IF ~sorted.ok THEN Threw ELSE DecideVariant(sorted.seq, threshold)

\* scoredCandidates after the map and the sort: [ok, seq], ok FALSE when
\* either threw
RankedVariant(linkJson, candidates, eng) ==
    IF ScoringThrowsV(candidates) THEN [ok |-> FALSE, seq |-> <<>>]
    ELSE sort(ScoredVariant(candidates,
                            normalizeValue(IF Truthy(linkJson.title)
                                           THEN linkJson.title ELSE <<>>),
                            normalizeKeywords(linkJson.keywords)),
              TieEpsVariant, eng)

\* scoring, sorting and deciding on the collected candidates
RankVariant(linkJson, candidates, threshold, eng) ==
    IF Len(candidates) = 0 THEN getPlaceholderResult("No images available")
    ELSE AfterSortVariant(RankedVariant(linkJson, candidates, eng), threshold)

computeVariant(linkJson, pageMeta, threshold, eng) ==
    RankVariant(linkJson, collectCandidates(linkJson, pageMeta), threshold, eng)

(* localStorage holds strings.  JSON.stringify of a result is LsJson(r);    *)
(* an item written by someone else may be the empty string, the text        *)
(* "null", or text that is not JSON.                                        *)
LsJson(result) == [kind |-> "json", value |-> result]
LsEmpty == [kind |-> "empty"]
LsNullText == [kind |-> "null"]
LsGarbage == [kind |-> "garbage"]

\* what JSON.parse("null") gives selectPreviewImage to return
NullResult == [status |-> "null"]

\* JSON.parse(item) of a non-empty item: [ok, value]
JSONparse(item) ==
    CASE item.kind = "json" -> [ok |-> TRUE, value |-> item.value]
      [] item.kind = "null" -> [ok |-> TRUE, value |-> NullResult]
      [] OTHER -> [ok |-> FALSE]

\* cacheAndReturn: [out, cache, ls]; setItemOk is FALSE when setItem throws.
\* A computation that threw reaches no cacheAndReturn.
cacheAndReturn(cacheKey, result, useCache, cch, store, hasStorage, setItemOk) ==
    IF result.status = "threw" THEN [out |-> Threw, cache |-> cch, ls |-> store]
    ELSE [out |-> result,
          cache |-> IF useCache THEN Put(cch, cacheKey, result) ELSE cch,
          ls |-> IF useCache /\ hasStorage /\ setItemOk
                 THEN Put(store, cacheKey, LsJson(result)) ELSE store]

\* the localStorage item is there, is not empty and parses
Mirrored(cacheKey, useCache, store, hasStorage, getItemOk) ==
    /\ hasStorage
    /\ useCache
    /\ getItemOk
    /\ cacheKey \in DOMAIN store
    /\ store[cacheKey].kind # "empty"
    /\ JSONparse(store[cacheKey]).ok

\* selectionCache.set(cacheKey, parsed); return parsed
FromMirror(cacheKey, parsed, cch, store) ==
    [out |-> parsed, cache |-> Put(cch, cacheKey, parsed), ls |-> store]

\* the lookup that reads the localStorage item ahead of selectionCache: a
\* faulty lookup that C22 must reject
LookupVariant_MirrorFirst(linkJson, pageMeta, options, cacheKey, cch, store, hasStorage, getItemOk, setItemOk, eng) ==
    IF Mirrored(cacheKey, options.useCache, store, hasStorage, getItemOk)
    THEN FromMirror(cacheKey, JSONparse(store[cacheKey]).value, cch, store)
    ELSE IF options.useCache /\ cacheKey \in DOMAIN cch
    THEN [out |-> cch[cacheKey], cache |-> cch, ls |-> store]
    ELSE cacheAndReturn(cacheKey,
                        computeVariant(linkJson, pageMeta, ThresholdOf(options), eng),
                        options.useCache, cch, store, hasStorage, setItemOk)

\* selectPreviewImage of the variant after validation
LookupVariant(linkJson, pageMeta, options, cacheKey, cch, store, hasStorage, getItemOk, setItemOk, eng) ==
    IF options.useCache /\ cacheKey \in DOMAIN cch
    THEN [out |-> cch[cacheKey], cache |-> cch, ls |-> store]
    ELSE IF Mirrored(cacheKey, options.useCache, store, hasStorage, getItemOk)
    THEN FromMirror(cacheKey, JSONparse(store[cacheKey]).value, cch, store)
    ELSE cacheAndReturn(cacheKey,
                        computeVariant(linkJson, pageMeta, ThresholdOf(options), eng),
                        options.useCache, cch, store, hasStorage, setItemOk)

\* selectPreviewImage of the variant: [out, cache, ls].  hasStorage says whether
\* window.localStorage exists; getItemOk and setItemOk are FALSE when the
\* storage call throws.
selectPreviewImageV(linkJson, pageMeta, options, cch, store, hasStorage, getItemOk, setItemOk, eng) ==
    IF InvalidLink(linkJson)
    THEN [out |-> getPlaceholderResult("Invalid input"), cache |-> cch, ls |-> store]
    ELSE LookupVariant(linkJson, pageMeta, options, CacheKey(linkJson), cch, store,
                       hasStorage, getItemOk, setItemOk, eng)

----------------------------------------------------------------------------
(* Inputs *)

MaxImages == 2
MaxCalls == 3

Plain(url, width, height) == Img(url, Undef, Undef, width, height, KwNone)

\* image entries with a URL, of assorted scores: two with the title's word in
\* the file name, two with the resolution bonus only, one with the word in
\* its alt text
ScoredImages ==
    { Plain(UrlCatJpg, 0, 0), Plain(UrlCatPng, 0, 0),
      Plain(UrlDog, 500, 400), Plain(UrlAnt, 500, 400),
      Img(UrlDog, AltBigRedCat, Undef, 0, 0, KwNone) }

\* three entries whose scores in the variant are 0.0005, 0.000575, 0.00065
TieImages == { Plain(UrlAnt, 100, 100), Plain(UrlBee, 115, 100), Plain(UrlDog, 130, 100) }

\* entries that `img && img.url` drops, and one whose url is a number
MalformedImages ==
    { NullEntry, UndefEntry, Plain(Null, 0, 0), Plain(<<>>, 500, 400),
      Plain(Num5, 0, 0) }

SeqsUpTo(S, n) == UNION { [1..k -> S] : k \in 0..n }

\* the lists without repetition over S, in every order
Arrangements(S) ==
    { q \in SeqsUpTo(S, Cardinality(S)) : \A i, j \in DOMAIN q : i # j => q[i] # q[j] }

Engines == {"pivotFirst", "elemFirst"}

\* thresholds a caller passes: none, 0, 0.0005, 0.25
Thresholds == {NoThreshold, 0, (5 * Unit) \div 10000, (25 * Unit) \div 100}

Contexts ==
    { [title |-> TitleCat, keywords |-> KwNone],
      [title |-> TitleCat, keywords |-> KwList(<<KeywordCat>>)],
      [title |-> Undef, keywords |-> KwNone] }

Metas == { NoMeta, Meta(UrlOg, Undef), Meta(Undef, UrlTw), Meta(UrlOg, UrlTw),
           Meta(UrlOg, UrlOg), Meta(Num5, Undef) }

PageBee == Page(<<Plain(UrlBee, 115, 100)>>, Undef, Undef)

Pages == { NoPage, Page(<<Plain(UrlPage, 0, 0)>>, Undef, Undef),
           Page(<<Plain(UrlBee, 115, 100)>>, UrlOg, Undef) }

Call(linkJson, pageMeta, options) ==
    [op |-> "selectPreviewImage", linkJson |-> linkJson, pageMeta |-> pageMeta,
     options |-> options]

\* ranking and threshold: lists of scored images, with or without a page image
RankingInputs ==
    { Call(Link(UrlArticle, c.title, c.keywords, images, NoMeta, Undef, "undefined"),
           page, Options(FALSE, th)) :
        c \in Contexts, images \in SeqsUpTo(ScoredImages, MaxImages),
        page \in {NoPage, PageBee}, th \in Thresholds }

\* near ties: the three close scores in every order
TieInputs ==
    { Call(Link(UrlArticle, title, KwNone, images, NoMeta, Undef, "undefined"),
           NoPage, Options(FALSE, th)) :
        title \in {TitleCat, Undef}, images \in Arrangements(TieImages),
        th \in {NoThreshold, 0} }

\* the fallback ladder: every combination of the fallback sources
LadderInputs ==
    { Call(Link(UrlArticle, TitleCat, KwNone, images, meta, thumb, category),
           page, Options(FALSE, th)) :
        images \in { <<>>, <<Plain(UrlAnt, 100, 100)>>,
                     <<Plain(UrlAnt, 100, 100),
                       Img(UrlDog, AltBigRedCat, Undef, 0, 0, KwNone)>> },
        meta \in Metas, page \in Pages, thumb \in {Undef, UrlThumb},
        category \in {"undefined", "videos", "blog"},
        th \in {NoThreshold, (25 * Unit) \div 100} }

\* malformed records and entries
MalformedInputs ==
    { Call(Link(UrlArticle, TitleCat, KwNone, images, meta, Undef, "undefined"),
           NoPage, Options(FALSE, NoThreshold)) :
        images \in SeqsUpTo(MalformedImages \cup
                            {Plain(UrlCatJpg, 0, 0), Plain(UrlDog, 500, 400)}, MaxImages),
        meta \in {NoMeta, Meta(Num5, Undef), Meta(UrlOg, Num5)} }
    \cup { Call(linkJson, NoPage, Options(uc, NoThreshold)) :
             linkJson \in {NullLink, StringLink}, uc \in BOOLEAN }

SelInputs == RankingInputs \cup TieInputs \cup LadderInputs \cup MalformedInputs

\* the records of the call sequences: two records that share a url and
\* differ in content, one without a url, an absent record and a string
RecordCat == Link(UrlArticle, TitleCat, KwNone, <<Plain(UrlCatJpg, 0, 0)>>,
                  NoMeta, Undef, "undefined")
RecordBare == Link(UrlArticle, TitleCat, KwNone, <<>>, NoMeta, Undef, "videos")
RecordNoUrl == Link(Undef, TitleCat, KwNone, <<UndefEntry, Plain(UrlDog, 500, 400)>>,
                    Meta(UrlOg, Undef), Undef, "undefined")

PageCat == Page(<<Plain(UrlCatPng, 0, 0)>>, Undef, Undef)

CallInputs ==
    { Call(linkJson, page, Options(uc, NoThreshold)) :
        linkJson \in {RecordCat, RecordBare, RecordNoUrl},
        page \in {NoPage, PageCat}, uc \in BOOLEAN }
    \cup { Call(linkJson, NoPage, Options(uc, NoThreshold)) :
             linkJson \in {NullLink, StringLink}, uc \in BOOLEAN }

\* items another writer may leave in localStorage under a key of the model
ForeignItems ==
    { LsGarbage, LsNullText, LsJson(Result(UrlOg, "meta-og", 0)) }

----------------------------------------------------------------------------
(* State machine *)

NoCall == [op |-> "none"]
NoOut == [status |-> "none"]
Empty == <<>>

\* hist keeps, per record, what the first call with caching returned for it
\* since the cache was last cleared
Observe(h, i, result) ==
    IF i.options.useCache /\ i.linkJson \notin DOMAIN h
    THEN Put(h, i.linkJson, result)
    ELSE h

\* the main implementation has no storage mirror
WithStore(r, store) == [out |-> r.out, cache |-> r.cache, ls |-> store]

\* one selectPreviewImage call of implementation im: [out, cache, ls]
Select(im, eng, hasStorage, cch, store, i, getItemOk, setItemOk) ==
    IF im = "main"
    THEN WithStore(selectPreviewImage(i.linkJson, i.pageMeta, i.options, cch, eng), store)
    ELSE selectPreviewImageV(i.linkJson, i.pageMeta, i.options, cch, store, hasStorage,
                             getItemOk, setItemOk, eng)

\* the call on the loaded module
Run(i, getItemOk, setItemOk) ==
    Select(impl, engine, browser, cache, ls, i, getItemOk, setItemOk)

\* scoredCandidates of the call i after the sort, in implementation im on
\* engine eng: [ok, seq]
RankingOf(im, eng, i) ==
    IF im = "main"
    THEN RankedMain(i.linkJson, extractImageCandidates(i.linkJson, i.pageMeta), eng)
    ELSE RankedVariant(i.linkJson, collectCandidates(i.linkJson, i.pageMeta), eng)

\* scoredCandidates of the call i after the sort: [ok, seq]
Ranking(i) == RankingOf(impl, engine, i)

(* The caller's objects after a call.  The arrays a selectPreviewImage      *)
(* call works on are named: images, pageImages and keywords are the        *)
(* caller's, scoredCandidates is the array that candidates.map returns.    *)
(* extractImageCandidates and collectCandidates push new objects onto a    *)
(* new array, and the map copies each candidate ({ ...img, score }).       *)
CallArrays(i) ==
    [images |-> i.linkJson.images, pageImages |-> i.pageMeta.images,
     keywords |-> i.linkJson.keywords, scoredCandidates |-> <<>>]

\* the sort applied to the record's images list: a faulty sort that C24 must
\* reject
SortInPlace_OnImages(arrays, sorted) == [arrays EXCEPT !.images = sorted.seq]

\* scoredCandidates.sort(...): Array.prototype.sort sorts its array in place
SortInPlace(arrays, sorted) == [arrays EXCEPT !.scoredCandidates = sorted.seq]

\* the call's arguments with the caller's arrays as the call left them
ArgsAfter(i, arrays) ==
    [i EXCEPT !.linkJson.images = arrays.images,
              !.linkJson.keywords = arrays.keywords,
              !.pageMeta.images = arrays.pageImages]

\* the call gets as far as the map and the sort: the record is valid and
\* neither selectionCache nor the mirror answers
Computes(i, getItemOk) ==
    /\ ~InvalidLink(i.linkJson)
    /\ ~(i.options.useCache /\ CacheKey(i.linkJson) \in DOMAIN cache)
    /\ ~(impl = "variant" /\ Mirrored(CacheKey(i.linkJson), i.options.useCache, ls,
                                       browser, getItemOk))

\* the arguments of a selectPreviewImage call after the call
SelectArgs(i, getItemOk) ==
    IF Computes(i, getItemOk)
    THEN ArgsAfter(i, SortInPlace(CallArrays(i), Ranking(i)))
    ELSE i

\* the sets a scoreImage call works on: linkTokens is the caller's,
\* altTokens is the scorer's own set, to which the main implementation adds
\* the tokens of alt and caption (the variant builds its sets in one go)
ScoreSets(c) ==
    [linkTokens |-> c.linkTokens,
     altTokens |-> IF impl = "main" THEN AltTokens(c.image) ELSE {}]

\* the arguments of a scoreImage call after the call
ScoreArgs(c) == [c EXCEPT !.linkTokens = ScoreSets(c).linkTokens]

DoSelect(i, getItemOk, setItemOk) ==
    \E r \in {Run(i, getItemOk, setItemOk)} :
        /\ inp' = i
        /\ out' = r.out
        /\ cache' = r.cache
        /\ ls' = r.ls
        /\ hist' = Observe(hist, i, r.out)
        /\ args' = SelectArgs(i, getItemOk)
        /\ calls' = calls + 1
        /\ UNCHANGED <<impl, engine, browser>>

\* the storage calls can fail only where there is a storage
StorageOutcomes == IF browser THEN BOOLEAN ELSE {TRUE}

SelectCall ==
    /\ calls < MaxCalls
    /\ \E i \in CallInputs : \E g \in StorageOutcomes, s \in StorageOutcomes :
           DoSelect(i, g, s)

\* clearCache: the variant also removes the mirrored items; when a storage
\* call throws part-way, the items removed so far stay removed
ClearCache ==
    /\ calls < MaxCalls
    /\ cache' = Empty
    /\ IF impl = "variant" /\ browser
       THEN \E kept \in SUBSET DOMAIN ls : ls' = [k \in kept |-> ls[k]]
       ELSE ls' = ls
    /\ inp' = [op |-> "clearCache"]
    /\ out' = [status |-> "undefined"]
    /\ hist' = Empty
    /\ args' = inp'
    /\ calls' = calls + 1
    /\ UNCHANGED <<impl, engine, browser>>

\* getCacheStats (the main implementation exports it)
GetCacheStats ==
    /\ calls < MaxCalls
    /\ impl = "main"
    /\ inp' = [op |-> "getCacheStats"]
    /\ out' = [status |-> "stats", size |-> Cardinality(DOMAIN cache), keys |-> DOMAIN cache]
    /\ args' = inp'
    /\ calls' = calls + 1
    /\ UNCHANGED <<impl, engine, browser, cache, ls, hist>>

\* another writer (another tab, an earlier session) sets a mirrored item
StorageWrite ==
    /\ calls < MaxCalls
    /\ browser
    /\ \E linkJson \in {RecordCat, RecordNoUrl}, item \in ForeignItems :
           ls' = Put(ls, CacheKey(linkJson), item)
    /\ inp' = [op |-> "storageWrite"]
    /\ out' = [status |-> "undefined"]
    /\ args' = inp'
    /\ calls' = calls + 1
    /\ UNCHANGED <<impl, engine, browser, cache, hist>>

Loaded ==
    /\ impl \in {"main", "variant"}
    /\ engine \in Engines
    /\ browser \in (IF impl = "variant" THEN BOOLEAN ELSE {FALSE})
    /\ cache = Empty
    /\ ls = Empty
    /\ calls = 0
    /\ out = NoOut
    /\ hist = Empty

Init == Loaded /\ inp = NoCall /\ args = inp

Next == SelectCall \/ ClearCache \/ GetCacheStats \/ StorageWrite

Spec == Init /\ [][Next]_vars

(* One call on a freshly loaded module, the input drawn from SelInputs *)
InitSel == Loaded /\ inp \in SelInputs /\ args = inp

Apply ==
    /\ calls = 0
    /\ \E g \in StorageOutcomes, s \in StorageOutcomes : DoSelect(inp, g, s)

NextSel == Apply

SpecSel == InitSel /\ [][NextSel]_vars

(* One call of an exported helper function on a freshly loaded module, the  *)
(* call drawn from FnInputs.                                                *)

\* the words the token sets of the helper calls are made of
WordCat == <<"c","a","t">>
WordDog == <<"d","o","g">>
WordNews == <<"n","e","w","s">>
WordRed == <<"r","e","d">>
Words == {WordCat, WordDog, WordNews, WordRed}

JaccardCall(setA, setB) == [op |-> "jaccardSimilarity", setA |-> setA, setB |-> setB]

JaccardInputs == { JaccardCall(a, b) : a \in SUBSET Words, b \in SUBSET Words }

\* texts handed to the tokenizer
FoxSentence == <<"T","h","e"," ","q","u","i","c","k"," ","b","r","o","w","n"," ","f","o","x"," ","j","u","m","p","s"," ","o","v","e","r"," ","t","h","e"," ","l","a","z","y"," ","d","o","g">>
FoxPunctuated == <<"T","h","e"," ","q","u","i","c","k"," ","b","r","o","w","n"," ","f","o","x",","," ","j","u","m","p","s"," ","o","v","e","r"," ","t","h","e"," ","l","a","z","y"," ","d","o","g","!">>
HelloTest == <<"H","e","l","l","o"," ","W","o","r","l","d","!"," ","T","h","i","s"," ","i","s"," ","a"," ","T","E","S","T",".">>
MixedText == <<"W","e","l","l","-","k","n","o","w","n"," "," ","t","o","p","_","1","0"," ","C","a","f","~"," ","v","2"," ","-","-","-"," ","I","T","'","S">>
SpacedText == <<" ", "\t", "O", "n", "e", "\n", "-", "t", "w", "o", "-", " ">>

TokenizerTexts ==
    { FoxSentence, FoxPunctuated, HelloTest, MixedText, SpacedText, TitleCat,
      AltBigRedCat, <<>>, Null, Undef, Num5 }

TokenizeCall(text) == [op |-> "tokenize", text |-> text]

TokenizeInputs == { TokenizeCall(text) : text \in TokenizerTexts }

\* the tokenizer that implementation im exports: tokenize, normalizeTokens
TokenizerOf(im, text) ==
    IF im = "main" THEN tokenizeChars(text) ELSE normalizeTokens(text)

\* widths and heights: absent (0), at, below and above 100000 pixels, and
\* above a megapixel
Sizes == { <<0, 0>>, <<0, 400>>, <<500, 0>>, <<100, 100>>, <<250, 400>>,
           <<500, 400>>, <<2000, 1000>> }

ScoreImageCall(image, linkTokens, keywords) ==
    [op |-> "scoreImage", image |-> image, linkTokens |-> linkTokens,
     keywords |-> keywords]

\* keyword arrays: keywords that match and that do not, a stop-word, a word
\* too short to give a token, a number, a keyword of two words
KeywordArrays ==
    { <<KeywordCat, KeywordDog>>, <<KeywordThe, KeywordCat>>, <<KeywordTv>>,
      <<Num5, KeywordCat>>, <<TitleCat, KeywordDog, KeywordThe>> }

WordJpg == <<"j","p","g">>

\* scoreImage calls of the main implementation on those keyword arrays, with
\* images whose URL and alt text carry all, some or none of the link tokens
KeywordedInputs ==
    { ScoreImageCall(Img(url, alt, Undef, size[1], size[2], KwNone), linkTokens, keywords) :
        url \in {UrlCatJpg, UrlDog}, alt \in {Undef, AltBigRedCat, AltCatJpg},
        size \in { <<0, 0>>, <<500, 400>> },
        linkTokens \in { {WordCat, WordNews}, {WordCat, WordJpg} },
        keywords \in KeywordArrays \cup { <<>>, <<KeywordCat>> } }

\* scoreImage(image, linkTokens, keywordArray) of the main implementation
\* takes the keywords as an array of strings, scoreImage(image, titleTokens,
\* keywordTokens) of the variant as a token set
ScoreImageInputs(im) ==
    { ScoreImageCall(Img(url, alt, Undef, size[1], size[2], KwNone), linkTokens, keywords) :
        url \in {UrlCatJpg, UrlDog}, alt \in {Undef, AltBigRedCat}, size \in Sizes,
        linkTokens \in { {WordNews}, {WordCat, WordNews} },
        keywords \in (IF im = "main" THEN { <<>>, <<KeywordCat>> }
                      ELSE { {}, {WordCat} }) }
    \cup (IF im = "main" THEN KeywordedInputs ELSE {})

\* category values: the six of the table, an absent one, one that is no
\* property of the table, and one that names an inherited property of it
Categories ==
    { "news", "videos", "products", "tweets", "memes", "tools", "undefined",
      "unknown", "constructor" }

PlaceholderCall(category) == [op |-> "getPlaceholderImage", category |-> category]

PlaceholderInputs == { PlaceholderCall(category) : category \in Categories }

\* records with no image anywhere
BareInputs ==
    { Call(Link(UrlArticle, TitleCat, KwNone, <<>>, NoMeta, Undef, category),
           NoPage, Options(FALSE, NoThreshold)) : category \in Categories }

\* URLs handed to extractUrlTokens: absolute ones with hyphens, underscores,
\* several path segments and a query, a relative path, a text that is no
\* URL, and values that are no strings
UrlDeep == <<"h","t","t","p","s",":","/","/","x","/","i","m","a","g","e","s","/","l","o","t","t","e","r","y","-","b","a","l","l","s","_","2","0","2","6",".","j","p","g">>
UrlQuery == <<"h","t","t","p","s",":","/","/","x","/","t","o","p","-","n","e","w","s","/","c","a","t",".","j","p","g","?","i","d","=","b","i","g","-","d","o","g">>
UrlRelative == <<"i","m","a","g","e","s","/","l","o","t","t","e","r","y","-","b","a","l","l","s",".","j","p","g">>
UrlUnderscored == <<"l","o","t","t","e","r","y","_","b","a","l","l","s",".","j","p","g">>
UrlWords == <<"n","o","t"," ","a"," ","u","r","l">>

UrlCallValues ==
    { UrlDeep, UrlQuery, UrlRelative, UrlUnderscored, UrlWords, UrlCatJpg, <<>>,
      Undef, Null, Num5 }

UrlTokensCall(url) == [op |-> "extractUrlTokens", url |-> url]

UrlTokensInputs == { UrlTokensCall(url) : url \in UrlCallValues }

\* records with images of assorted scores, in every order, and a page image
ListInputs ==
    { Call(Link(UrlArticle, TitleCat, KwList(<<KeywordCat>>), images, NoMeta, Undef,
                "undefined"),
           PageBee, Options(FALSE, NoThreshold)) :
        images \in SeqsUpTo(ScoredImages, MaxImages) }

\* the calls of the helper functions that implementation im exports, and
\* selectPreviewImage calls on records with no image and with images
FnInputs(im) ==
    (IF im = "main" THEN JaccardInputs \cup PlaceholderInputs ELSE {})
        \cup TokenizeInputs \cup ScoreImageInputs(im) \cup BareInputs
        \cup ListInputs \cup UrlTokensInputs

\* scoreImage of implementation im on the call c
ScoreImageOf(im, c) ==
    IF im = "main" THEN scoreImage(c.image, c.linkTokens, c.keywords)
    ELSE scoreImageV(c.image, c.linkTokens, c.keywords)

Value(v) == [status |-> "value", value |-> v]

Returns(v) ==
    /\ calls = 0
    /\ out' = Value(v)
    /\ calls' = 1
    /\ UNCHANGED <<impl, engine, browser, cache, ls, hist, inp>>

CallJaccard ==
    /\ inp.op = "jaccardSimilarity"
    /\ Returns(jaccardSimilarity(inp.setA, inp.setB))
    /\ args' = inp

CallTokenize ==
    /\ inp.op = "tokenize"
    /\ Returns(TokenizerOf(impl, inp.text))
    /\ args' = inp

CallScoreImage ==
    /\ inp.op = "scoreImage"
    /\ Returns(ScoreImageOf(impl, inp))
    /\ args' = ScoreArgs(inp)

CallPlaceholder ==
    /\ inp.op = "getPlaceholderImage"
    /\ Returns(getPlaceholderImage(inp.category))
    /\ args' = inp

\* the call throws
Throws ==
    /\ calls = 0
    /\ out' = Threw
    /\ calls' = 1
    /\ UNCHANGED <<impl, engine, browser, cache, ls, hist, inp>>

\* extractUrlTokens of the loaded implementation
CallUrlTokens ==
    /\ inp.op = "extractUrlTokens"
    /\ IF impl = "main" THEN Returns(urlTokensOf(inp.url))
       ELSE IF extractUrlTokensThrowsV(inp.url) THEN Throws
       ELSE Returns(urlTokensOfV(inp.url))
    /\ args' = inp

CallSelect ==
    /\ inp.op = "selectPreviewImage"
    /\ calls = 0
    /\ DoSelect(inp, TRUE, TRUE)

InitFn ==
    /\ impl \in {"main", "variant"}
    /\ engine = "pivotFirst"
    /\ browser = FALSE
    /\ cache = Empty
    /\ ls = Empty
    /\ calls = 0
    /\ out = NoOut
    /\ hist = Empty
    /\ inp \in FnInputs(impl)
    /\ args = inp

NextFn ==
    CallJaccard \/ CallTokenize \/ CallScoreImage \/ CallPlaceholder \/ CallSelect
        \/ CallUrlTokens

SpecFn == InitFn /\ [][NextFn]_vars

----------------------------------------------------------------------------
(* Properties.  Under Spec a state is what a sequence of operations left;   *)
(* under SpecSel it is one call on a freshly loaded module.                 *)

\* the last operation was a selectPreviewImage call, and it has ended
Called == inp.op = "selectPreviewImage" /\ calls > 0

\* the last operation was a call with a record that passes the validation
CalledValid == Called /\ ~InvalidLink(inp.linkJson)

\* what the call i returns on a freshly loaded module of the same build
Fresh(i) == Select(impl, engine, browser, Empty, Empty, i, TRUE, TRUE).out

\* the threshold implementation im compares with: the main implementation
\* reads no options.threshold
ThresholdIn(im, options) ==
    IF im = "main" THEN RELEVANCE_THRESHOLD ELSE ThresholdOf(options)

\* the threshold the loaded implementation compares with
CodeThreshold == ThresholdIn(impl, inp.options)

\* the tie epsilon of the loaded implementation
CodeEps == IF impl = "main" THEN TieEpsMain ELSE TieEpsVariant

\* the ranked candidates that come from the record's own images list
PrimaryHits(seq) ==
    SelectSeq(seq, LAMBDA c : c.cand.source = (IF impl = "main" THEN "linkJson"
                                                ELSE "json-match"))

\* no ranked candidate reaches the threshold th
AllBelow(seq, th) == \A k \in DOMAIN seq : seq[k].score < th

\* C1: with caching enabled, every call for a record returns the result that
\* the first call with caching for that record returned since the cache was
\* last cleared, whatever calls for other records came in between.
C1_CachedCallsRepeatFirst ==
    (Called /\ inp.options.useCache)
        => (inp.linkJson \in DOMAIN hist /\ out = hist[inp.linkJson])

\* a repeated call with caching returned the first result although a fresh
\* computation on its arguments gives another one
C1_Witness ==
    /\ Called
    /\ inp.options.useCache
    /\ ~InvalidLink(inp.linkJson)
    /\ calls >= 2
    /\ out = hist[inp.linkJson]
    /\ out # Fresh(inp)

\* C2: with useCache=false the result is a function of the record, pageMeta
\* and the options alone: it is what the same call returns on a freshly
\* loaded module, whatever calls came before and whatever the cache holds.
C2_UncachedIsFunctionOfInput ==
    (Called /\ ~inp.options.useCache) => out = Fresh(inp)

\* an uncached call returned its own result while the cache held another
\* result under its key
C2_Witness ==
    /\ CalledValid
    /\ ~inp.options.useCache
    /\ CacheKey(inp.linkJson) \in DOMAIN cache
    /\ cache[CacheKey(inp.linkJson)] # out

\* what the threshold rule asks of the result of a call whose ranked
\* candidates are seq, when th is the threshold in effect: at or above th the
\* top candidate is returned as a scored match with its score, below th the
\* result comes from the fallback ladder
FollowsThreshold(seq, th, result) ==
    IF seq[1].score >= th
    THEN /\ result.imageUrl = seq[1].cand.url
         /\ result.score = seq[1].score
         /\ result.reason = (IF impl = "main" THEN ScoredMatch(seq[1].cand.source)
                             ELSE seq[1].cand.source)
    ELSE IF impl = "main"
    THEN result.reason \in {"fallback_og_image", "fallback_twitter_image",
                            "fallback_first_image"}
    ELSE result = FallbackVariant(Hits(seq, "json-match"), Hits(seq, "meta-og"),
                                  Hits(seq, "page-first"))

ThresholdRule(r, th) == (r.ok /\ Len(r.seq) > 0) => FollowsThreshold(r.seq, th, out)

\* C3 as stated: the threshold in effect is options.threshold when the caller
\* supplies one, otherwise 0.1 (main) or 0.05 (variant); the top-ranked
\* candidate is accepted exactly when its score is >= that threshold.
C3_SuppliedThresholdInEffect ==
    CalledValid =>
        ThresholdRule(Ranking(inp),
                      IF inp.options.threshold # NoThreshold THEN inp.options.threshold
                      ELSE IF impl = "main" THEN RELEVANCE_THRESHOLD ELSE SCORE_THRESHOLD)

\* C3, amended: the threshold in effect is the constant 0.1 in the main
\* implementation whatever options.threshold is, and options.threshold or
\* else 0.05 in the variant; the top-ranked candidate is accepted exactly when
\* its score is >= that threshold, a score equal to it included.
C3_CodeThresholdInEffect ==
    CalledValid => ThresholdRule(Ranking(inp), CodeThreshold)

\* the main implementation accepted a candidate whose score equals 0.1 while
\* the caller had supplied the threshold 0.25
C3_Witness ==
    /\ CalledValid
    /\ impl = "main"
    /\ inp.options.threshold = (25 * Unit) \div 100
    /\ out.status = "ok"
    /\ IsScoredMatch(out.reason)
    /\ out.score = RELEVANCE_THRESHOLD

\* the url of the best-ranked candidate of the record's own images list is
\* what a call returns when no candidate reaches the threshold
PrimaryFirst(r) ==
    (r.ok /\ AllBelow(r.seq, CodeThreshold) /\ Len(PrimaryHits(r.seq)) > 0)
        => (out.status = "ok" /\ out.imageUrl = PrimaryHits(r.seq)[1].cand.url)

\* C4: when no candidate reaches the threshold and the record's own images
\* list has a candidate with a URL, the call returns the best-scored candidate
\* of that list, ahead of the og:image, the twitter:image and page images.
C4_PrimaryBeforeMeta == CalledValid => PrimaryFirst(Ranking(inp))

\* the rest of the ladder in the main implementation, when no candidate
\* reaches the threshold and the record's own images give no candidate
RestOfLadder(linkJson, candidates) ==
    IF linkJson.meta.present /\ Truthy(linkJson.meta.ogImage)
    THEN out = Result(linkJson.meta.ogImage, "fallback_og_image", 0)
    ELSE IF linkJson.meta.present /\ Truthy(linkJson.meta.twitterImage)
    THEN out = Result(linkJson.meta.twitterImage, "fallback_twitter_image", 0)
    ELSE IF Len(candidates) > 0
    THEN out = Result(candidates[1].url, "fallback_first_image", 0)
    ELSE out.reason = "fallback_placeholder" /\ out.score = 0

LadderAfterRanking(r) ==
    (r.ok /\ AllBelow(r.seq, RELEVANCE_THRESHOLD) /\ Len(PrimaryHits(r.seq)) = 0)
        => RestOfLadder(inp.linkJson, extractImageCandidates(inp.linkJson, inp.pageMeta))

\* C5 (the main implementation, whose reason tags the claim names): when no
\* candidate reaches the threshold and the record has no primary image
\* candidate, the result is the og:image if present, else the twitter:image
\* if present, else the first collected candidate, else the placeholder, each
\* with its reason tag and score 0.
C5_RemainingLadderInOrder ==
    (CalledValid /\ impl = "main") => LadderAfterRanking(Ranking(inp))

\* the twitter:image step was taken while the later steps (a page image, a
\* thumbnail) were available too
C5_Witness ==
    /\ CalledValid
    /\ impl = "main"
    /\ inp.linkJson.images = <<>>
    /\ inp.pageMeta.present
    /\ Truthy(inp.linkJson.thumbnail)
    /\ out = Result(UrlTw, "fallback_twitter_image", 0)

\* the smaller of two URLs in the order localeCompare gives
SmallerUrl(a, b) == IF CompareFrom(a, b, 1) <= 0 THEN a ELSE b

TieOfTwo(r) ==
    (/\ r.ok
     /\ Len(r.seq) = 2
     /\ Abs(r.seq[1].score - r.seq[2].score) < CodeEps
     /\ r.seq[1].score >= CodeThreshold
     /\ r.seq[2].score >= CodeThreshold
     /\ IsString(r.seq[1].cand.url)
     /\ IsString(r.seq[2].cand.url))
        => (out.status = "ok"
            /\ out.imageUrl = SmallerUrl(r.seq[1].cand.url, r.seq[2].cand.url))

\* C6: of exactly two candidates whose scores are within the tie epsilon and
\* both at or above the threshold, the call selects the one with the smaller
\* URL, whichever comes first in the input list.
C6_TieBreakSmallerUrl == CalledValid => TieOfTwo(Ranking(inp))

\* two tied candidates above the threshold, the one with the smaller URL
\* second in the images list, and it is selected
C6_Witness ==
    /\ CalledValid
    /\ inp.linkJson.images = <<Plain(UrlCatPng, 0, 0), Plain(UrlCatJpg, 0, 0)>>
    /\ ~inp.pageMeta.present
    /\ inp.linkJson.title = TitleCat
    /\ inp.options.threshold = NoThreshold
    /\ out.status = "ok"
    /\ out.imageUrl = UrlCatJpg

\* the rearrangements of a list
Rearrangements(q) ==
    { [k \in DOMAIN q |-> q[f[k]]] :
        f \in { g \in [DOMAIN q -> DOMAIN q] : \A a, b \in DOMAIN q : a # b => g[a] # g[b] } }

WithImages(i, images) == [i EXCEPT !.linkJson.images = images]

SameRanking(r1, r2) == (r1.ok /\ r2.ok) => r1.seq = r2.seq

\* C7: the ranking is a total order: the ranked sequence, and so the
\* top-ranked candidate, is the same for every permutation of the images list.
C7_RankingOrderIndependent ==
    CalledValid =>
        \A images \in Rearrangements(inp.linkJson.images) :
            SameRanking(Ranking(WithImages(inp, images)), Ranking(inp))

\* the result of a call on a record that is absent or no object
InvalidResult ==
    IF impl = "main" THEN Result(PlaceholderNews, "invalid_input", 0)
    ELSE ResultMsg(Null, "placeholder", 0, "Invalid input")

C9_NeverThrows == Called => out.status = "ok"

\* an entry of an images list that has a URL
IsValidEntry(e) == e.kind = "object" /\ e.url \notin {Undef, Null, <<>>}

ValidOnly(i) == WithImages(i, SelectSeq(i.linkJson.images, IsValidEntry))

\* C10: null, undefined and URL-less entries of the images list are dropped
\* before scoring: the call on the list returns what the call on the list of
\* its valid entries returns, and returns no URL-less image (a null imageUrl
\* is the variant's placeholder).
C10_DroppedEntriesIgnored ==
    CalledValid =>
        /\ out = Fresh(ValidOnly(inp))
        /\ (out.status = "ok" /\ ~Truthy(out.imageUrl)) => out.reason = "placeholder"

\* a list that mixes dropped entries with a valid one, whose URL is returned
C10_Witness ==
    /\ CalledValid
    /\ out.status = "ok"
    /\ \E k \in DOMAIN inp.linkJson.images : ~IsValidEntry(inp.linkJson.images[k])
    /\ \E k \in DOMAIN inp.linkJson.images :
           /\ IsValidEntry(inp.linkJson.images[k])
           /\ out.imageUrl = inp.linkJson.images[k].url

\* the call did not accept a scored match: its ranking is empty or its
\* top-ranked candidate is below the threshold the code applies
TookFallback(r) == r.ok /\ (Len(r.seq) = 0 \/ r.seq[1].score < CodeThreshold)

\* C11: every result returned from a fallback path (invalid input, an empty
\* ranking, or a top-ranked candidate below the threshold, the below-threshold
\* primary-image fallback included) has score 0.
C11_FallbackScoreZero ==
    (Called /\ out.status = "ok"
        /\ (InvalidLink(inp.linkJson) \/ TookFallback(Ranking(inp))))
    => out.score = 0

\* the step of the fallback ladder that the code of implementation im takes
\* for the call i, whose ranked candidates are seq
FallbackStep(im, i, seq) ==
    IF im = "main"
    THEN IF i.linkJson.meta.present /\ Truthy(i.linkJson.meta.ogImage) THEN "og"
         ELSE IF i.linkJson.meta.present /\ Truthy(i.linkJson.meta.twitterImage)
         THEN "twitter"
         ELSE IF Len(seq) > 0 THEN "first"
         ELSE "placeholder"
    ELSE IF Len(Hits(seq, "json-match")) > 0 THEN "primary"
         ELSE IF Len(Hits(seq, "meta-og")) > 0 THEN "meta"
         ELSE IF Len(Hits(seq, "page-first")) > 0 THEN "page"
         ELSE "placeholder"

\* the path through selectPreviewImage that produces the result, given the
\* ranking r: a scored match with the winner's source, or a fallback step
PathAfter(im, i, r) ==
    IF ~r.ok THEN <<"threw">>
    ELSE IF Len(r.seq) > 0 /\ r.seq[1].score >= ThresholdIn(im, i.options)
    THEN <<"scored", r.seq[1].cand.source>>
    ELSE <<"fallback", FallbackStep(im, i, r.seq)>>

PathOf(im, eng, i) ==
    IF InvalidLink(i.linkJson) THEN <<"invalid">>
    ELSE PathAfter(im, i, RankingOf(im, eng, i))

\* one call per path: a scored match from each source, each fallback step,
\* a record with no image anywhere, and an absent record
PathProbes ==
    { Call(Link(UrlArticle, TitleCat, KwNone, images, meta, thumb, "undefined"),
           page, Options(FALSE, NoThreshold)) :
        images \in { <<>>, <<Plain(UrlCatJpg, 0, 0)>>, <<Plain(UrlAnt, 100, 100)>> },
        meta \in { NoMeta, Meta(UrlOg, Undef), Meta(Undef, UrlTw) },
        page \in { NoPage, PageBee },
        thumb \in { Undef, UrlThumb } }
    \cup { Call(NullLink, NoPage, Options(FALSE, NoThreshold)) }

\* the reason and the path of every probe call, per implementation
ProbeOutcomes ==
    [ x \in {"main", "variant"} \X PathProbes |->
        [ reason |-> Select(x[1], "pivotFirst", FALSE, Empty, Empty, x[2], TRUE, TRUE).out.reason,
          path |-> PathOf(x[1], "pivotFirst", x[2]) ] ] @@ <<>>

\* a probe call that returns the reason `reason` took the path `path`
OnlyPathOf(probe, reason, path) == probe.reason = reason => probe.path = path

\* C12: the reason of a result identifies the path that produced it: no call
\* that took another path (a scored match from another source, another
\* fallback step, invalid input) returns the same reason.
C12_ReasonIdentifiesPath ==
    (Called /\ out.status = "ok")
    => \A p \in {PathOf(impl, engine, inp)} :
           \A j \in PathProbes : OnlyPathOf(ProbeOutcomes[<<impl, j>>], out.reason, p)

\* the last operation was a call of the helper function op, and it has ended
Returned(op) == inp.op = op /\ calls > 0

\* v is the share n / d on the score scale
IsRatio(v, n, d) == v * d = n * Unit

JaccardLaw(setA, setB, v) ==
    /\ (setA \cup setB # {}) =>
           IsRatio(v, Cardinality(setA \cap setB), Cardinality(setA \cup setB))
    /\ (setA = {} /\ setB = {}) => v = 0
    /\ ((setA = {}) # (setB = {})) => v = 0
    /\ (v = Unit) <=> (setA = setB /\ setA # {})
    /\ 0 <= v /\ v <= Unit

\* C13: jaccardSimilarity(A, B) is |A n B| / |A u B| when A u B is non-empty
\* and 0 when both sets are empty; so it is 0 when exactly one set is empty,
\* 1 only for equal non-empty sets, and always within [0, 1].
C13_JaccardIsIntersectionOverUnion ==
    Returned("jaccardSimilarity") => JaccardLaw(inp.setA, inp.setB, out.value)

\* a call on two different overlapping sets, one inside the other
C13_Witness ==
    /\ Returned("jaccardSimilarity")
    /\ inp.setA = {WordCat}
    /\ inp.setB = {WordCat, WordDog, WordNews}
    /\ IsRatio(out.value, 1, 3)

WordOver == <<"o","v","e","r">>

\* the stop-word list of the loaded implementation
StopWordList == IF impl = "main" THEN STOPWORDS ELSE STOP_WORDS

\* C14: tokenize("The quick brown fox jumps over the lazy dog") contains
\* quick, brown and fox and contains neither the nor over; no word of the
\* stop-word list, over included, is in any token set the tokenizer returns.
C14_StopWordsExcluded ==
    Returned("tokenize") =>
        /\ (inp.text = FoxSentence) =>
               /\ {<<"q","u","i","c","k">>, <<"b","r","o","w","n">>, <<"f","o","x">>} \subseteq out.value
               /\ <<"t","h","e">> \notin out.value
               /\ WordOver \notin out.value
        /\ out.value \cap (StopWordList \cup {WordOver}) = {}

\* what C15 asks of a member of a token set
WellFormedToken(w) ==
    /\ Len(w) > 2
    /\ \A k \in DOMAIN w :
           /\ ~IsUpper(w[k])
           /\ IsLetter(w[k]) \/ IsDigit(w[k]) \/ w[k] \in {"_", "-"}
    /\ w \notin STOPWORDS

\* an empty, null, undefined or non-string input
NoText(text) == text = <<>> \/ text \in NonStrings

\* C15: tokenize (src/utils/imageSelector.js) returns, for every input and
\* without throwing, a set whose members are lowercase, longer than 2
\* characters, made of letters, digits, underscore and hyphen only, and no
\* stop-words; the set is empty for an empty, null, undefined or non-string
\* input.
C15_TokensWellFormed ==
    (Returned("tokenize") /\ impl = "main") =>
        /\ out.status = "value"
        /\ \A w \in out.value : WellFormedToken(w)
        /\ NoText(inp.text) => out.value = {}

\* a text with capitals, punctuation, a hyphen, an underscore and digits
\* gave its lowercase words
C15_Witness ==
    /\ Returned("tokenize")
    /\ impl = "main"
    /\ inp.text = MixedText
    /\ out.value = {<<"w","e","l","l","-","k","n","o","w","n">>, <<"t","o","p","_","1","0">>, <<"c","a","f">>, <<"-","-","-">>}

\* the members of the set S as a list, in every order
RECURSIVE Orderings(_)
Orderings(S) ==
    IF S = {} THEN {<<>>}
    ELSE UNION { { <<w>> \o q : q \in Orderings(S \ {w}) } : w \in S }

\* the string reconstructed from the tokens in the order q
Reconstructed(q) == Join(q, <<" ">>)

\* C16: the tokenizer is idempotent: joining the members of the token set of
\* a text with spaces, in any order, and tokenizing that string again gives
\* the same set.
C16_TokenizeIdempotent ==
    Returned("tokenize") =>
        \A q \in Orderings(out.value) : TokenizerOf(impl, Reconstructed(q)) = out.value

\* a text that lost capitals, punctuation and short words to the tokenizer
C16_Witness ==
    /\ Returned("tokenize")
    /\ inp.text = HelloTest
    /\ {<<"h","e","l","l","o">>, <<"w","o","r","l","d">>, <<"t","e","s","t">>} \subseteq out.value
    /\ out.value # {}
    /\ Reconstructed(CHOOSE q \in Orderings(out.value) : TRUE) # inp.text

\* the call c with the image's width and height replaced
WithSize(c, size) == [c EXCEPT !.image.width = size[1], !.image.height = size[2]]

Pixels(image) == image.width * image.height

\* the part of the score that the width and height of the image account for
BonusIn(score, c) == score - ScoreImageOf(impl, WithSize(c, <<0, 0>>))

\* the score is strictly higher than that of the same candidate at any size
\* of at most 100000 pixels
BeatsSmallSizes(score, c) ==
    \A size \in Sizes :
        size[1] * size[2] <= PixelThreshold
            => score > ScoreImageOf(impl, WithSize(c, size))

\* C17 as stated: scoreImage awards the resolution bonus exactly when
\* width*height exceeds 100000 pixels; a candidate above that count scores
\* strictly higher than the same candidate at or below it, and a missing or
\* zero width or height gives no bonus.
C17_BonusExactlyAbovePixelCount ==
    Returned("scoreImage") =>
        /\ (BonusIn(out.value, inp) > 0) <=> (Pixels(inp.image) > PixelThreshold)
        /\ (Pixels(inp.image) > PixelThreshold) => BeatsSmallSizes(out.value, inp)

\* the bonus of each implementation for a width and height that are present
PolicyBonus(pixels) ==
    IF impl = "main"
    THEN (IF pixels > PixelThreshold THEN Unit \div 10 ELSE 0)
    ELSE (Min(pixels, MegaPixel) \div 500) * (((5 * Unit) \div 100) \div 2000)

\* C17, amended: the main implementation adds the bonus 0.1 exactly when
\* width*height exceeds 100000 pixels; the variant adds
\* 0.05 * min(width*height / 1000000, 1) whenever width and height are both
\* present and non-zero.  In both, a missing or zero width or height gives no
\* bonus, and a candidate above 100000 pixels scores strictly higher than the
\* same candidate at or below that count.
C17_BonusPerPolicy ==
    Returned("scoreImage") =>
        /\ BonusIn(out.value, inp) =
               (IF inp.image.width # 0 /\ inp.image.height # 0
                THEN PolicyBonus(Pixels(inp.image)) ELSE 0)
        /\ (Pixels(inp.image) > PixelThreshold) => BeatsSmallSizes(out.value, inp)

\* the variant gave a 100x100 candidate a bonus of 0.0005
C17_Witness ==
    /\ Returned("scoreImage")
    /\ impl = "variant"
    /\ inp.image.width = 100 /\ inp.image.height = 100
    /\ BonusIn(out.value, inp) = (5 * Unit) \div 10000

\* the score of a ranked candidate without its resolution component: its URL,
\* alt/caption and keyword relevance
RelevanceOf(s) ==
    s.score - (IF impl = "main" THEN ResolutionBonus(s.cand) ELSE ResolutionBoost(s.cand))

\* no candidate is ranked ahead of an equally relevant one that has more
\* pixels (of the candidates that carry a width and a height)
LargerAhead(seq) ==
    \A a, b \in DOMAIN seq :
        (a < b /\ RelevanceOf(seq[a]) = RelevanceOf(seq[b])
               /\ Pixels(seq[a].cand) > 0 /\ Pixels(seq[b].cand) > 0)
            => Pixels(seq[a].cand) >= Pixels(seq[b].cand)

\* C18: higher resolution wins ties: of two candidates with equal URL,
\* alt/caption and keyword relevance, the ranking puts the one with the larger
\* width*height ahead of the other.
C18_HigherResolutionWinsTies ==
    CalledValid => \A r \in {Ranking(inp)} : r.ok => LargerAhead(r.seq)

\* the placeholder the claim assigns to a category: the table's URL for the
\* six categories, the news URL for any other value
PlaceholderFor(category) ==
    CASE category = "news" -> PlaceholderNews
      [] category = "videos" -> PlaceholderVideos
      [] category = "products" -> PlaceholderProducts
      [] category = "tweets" -> PlaceholderTweets
      [] category = "memes" -> PlaceholderMemes
      [] category = "tools" -> PlaceholderTools
      [] OTHER -> PlaceholderNews

\* the record of the call has no image anywhere
NoImageAnywhere(i) ==
    /\ i.linkJson.images = <<>>
    /\ ~i.linkJson.meta.present
    /\ ~Truthy(i.linkJson.thumbnail)
    /\ ~i.pageMeta.present

\* C19: getPlaceholderImage (src/utils/imageSelector.js) returns the table's
\* URL for news, videos, products, tweets, memes and tools and the news URL
\* for every other category value, absent or unknown; a record with no image
\* anywhere resolves to its category's placeholder URL with reason
\* fallback_placeholder.
C19_PlaceholderPerCategory ==
    /\ Returned("getPlaceholderImage") => out.value = PlaceholderFor(inp.category)
    /\ (CalledValid /\ impl = "main" /\ NoImageAnywhere(inp))
           => out = Result(PlaceholderFor(inp.linkJson.category), "fallback_placeholder", 0)

\* a step that is a call of the operation op
StepOf(op) == inp'.op = op /\ calls' = calls + 1

\* C20: after clearCache no cached entry survives: the in-memory cache is
\* empty (getCacheStats reports size 0 and no keys), every mirrored
\* localStorage entry is gone, and the next selectPreviewImage call computes
\* its result from the record.
C20_ClearCacheDropsEverything ==
    [][ /\ StepOf("clearCache") => (cache' = Empty /\ ls' = Empty)
        /\ (inp.op = "clearCache" /\ StepOf("getCacheStats"))
               => (out'.size = 0 /\ out'.keys = {})
        /\ (inp.op = "clearCache" /\ StepOf("selectPreviewImage"))
               => out' = Fresh(inp') ]_vars

----------------------------------------------------------------------------
(* C21: a cache entry is written once *)

\* the keys of the valid records selected with caching since the cache was
\* last cleared
KeysSelected(h) == { CacheKey(r) : r \in { x \in DOMAIN h : ~InvalidLink(x) } }

\* the step is a selectPreviewImage call
SelectStep == StepOf("selectPreviewImage")

\* every entry of the in-process cache is there after the step, unchanged
EntriesKept == \A k \in DOMAIN cache : k \in DOMAIN cache' /\ cache'[k] = cache[k]

\* C21: between two clearCache calls the in-process cache entry of a key is
\* written at most once: a call with caching for a valid record leaves an
\* entry under the record's key, no selectPreviewImage call (with or without
\* caching, whatever the record's content) changes or removes an entry that
\* is there, and the keys of the cache are the distinct keys selected with
\* caching since the last clearCache.
C21_EntryWrittenOnce ==
    [][ /\ SelectStep => EntriesKept
        /\ (SelectStep /\ inp'.options.useCache /\ ~InvalidLink(inp'.linkJson))
              => CacheKey(inp'.linkJson) \in DOMAIN cache'
        /\ DOMAIN cache' = KeysSelected(hist') ]_vars

\* three calls left two entries, and the entry under the last call's key is
\* not what that call computes from its own record
C21_Witness ==
    /\ CalledValid
    /\ calls = 3
    /\ Cardinality(DOMAIN cache) = 2
    /\ CacheKey(inp.linkJson) \in DOMAIN cache
    /\ cache[CacheKey(inp.linkJson)] # Fresh(inp)
    /\ DOMAIN cache = KeysSelected(hist)

----------------------------------------------------------------------------
(* C22: the in-process cache wins over the mirror *)

\* the step is a call with caching, for a valid record, of the variant in a
\* browser
MirroredCachingStep ==
    /\ impl = "variant"
    /\ browser
    /\ SelectStep
    /\ inp'.options.useCache
    /\ ~InvalidLink(inp'.linkJson)

\* C22: in the variant with the localStorage mirror, a call with caching whose
\* key has an entry in the in-process cache returns that entry and leaves
\* cache and mirror alone, whatever the mirrored item under the key holds;
\* the mirror decides the result only on an in-process miss.
C22_InProcessWins ==
    [][ (MirroredCachingStep /\ CacheKey(inp'.linkJson) \in DOMAIN cache)
            => /\ out' = cache[CacheKey(inp'.linkJson)]
               /\ cache' = cache
               /\ ls' = ls ]_vars

\* a call with caching returned the in-process entry while the mirrored item
\* under its key held the result of another writer; the call's own record
\* computes to neither
C22_Witness ==
    /\ impl = "variant"
    /\ browser
    /\ CalledValid
    /\ inp.options.useCache
    /\ CacheKey(inp.linkJson) \in DOMAIN cache
    /\ CacheKey(inp.linkJson) \in DOMAIN ls
    /\ out = cache[CacheKey(inp.linkJson)]
    /\ ls[CacheKey(inp.linkJson)].kind = "json"
    /\ ls[CacheKey(inp.linkJson)].value # out
    /\ out # Fresh(inp)

----------------------------------------------------------------------------
(* C23: a mirrored item that cannot be used *)

\* a selection result: { imageUrl, reason, score }
WellFormedResult(r) == r.status = "ok"

\* what a call may return when its key misses the in-process cache and the
\* mirror holds item under it: the mirrored result when the item is the JSON
\* of one and getItem does not throw, and otherwise what the call computes
\* from its record
MissOutcomes(item, i) ==
    (IF item.kind = "json" THEN {item.value} ELSE {}) \cup {Fresh(i)}

\* C23: in the variant with the localStorage mirror, a call with caching whose
\* key misses the in-process cache while the mirrored item under the key
\* cannot be read or is corrupt (getItem throws, the text is no JSON, or it
\* parses to null) behaves as on a cache miss: it returns the well-formed
\* result computed from the record and stores that result in the in-process
\* cache.
C23_CorruptMirrorIsMiss ==
    [][ ( /\ MirroredCachingStep
          /\ CacheKey(inp'.linkJson) \notin DOMAIN cache
          /\ CacheKey(inp'.linkJson) \in DOMAIN ls )
            => /\ out' \in MissOutcomes(ls[CacheKey(inp'.linkJson)], inp')
               /\ WellFormedResult(out')
               /\ cache' = Put(cache, CacheKey(inp'.linkJson), out') ]_vars

\* the same with the text "null" left out of the corrupt items (not a claim:
\* it bounds the divergence)
UnparsableMirrorIsMiss ==
    [][ ( /\ MirroredCachingStep
          /\ CacheKey(inp'.linkJson) \notin DOMAIN cache
          /\ CacheKey(inp'.linkJson) \in DOMAIN ls
          /\ ls[CacheKey(inp'.linkJson)].kind # "null" )
            => /\ out' \in MissOutcomes(ls[CacheKey(inp'.linkJson)], inp')
               /\ WellFormedResult(out')
               /\ cache' = Put(cache, CacheKey(inp'.linkJson), out') ]_vars

----------------------------------------------------------------------------
(* C24: the inputs are left alone *)

----------------------------------------------------------------------------
(* C25: the order of the candidates *)

\* the candidates the loaded implementation collects for the call i
CandidatesOf(im, i) ==
    IF im = "main" THEN extractImageCandidates(i.linkJson, i.pageMeta)
    ELSE collectCandidates(i.linkJson, i.pageMeta)

\* the URLs of a sequence of image entries or candidates
UrlsOf(seq) == [k \in DOMAIN seq |-> seq[k].url]

\* the meta fields the Open-Graph and Twitter images are read from: the
\* record's, and in the variant the page's when the record has none
MetaFields(im, i) ==
    IF i.linkJson.meta.present \/ im = "main" THEN i.linkJson.meta
    ELSE [present |-> i.pageMeta.present, ogImage |-> i.pageMeta.ogImage,
          twitterImage |-> i.pageMeta.twitterImage]

\* the URLs in the order of the claim: the record's images, the page's
\* images, the Open-Graph image, the Twitter image when it differs from it,
\* the legacy thumbnail
UrlsInFixedOrder(i, meta) ==
    UrlsOf(SelectSeq(i.linkJson.images, HasUrl))
    \o (IF i.pageMeta.present THEN UrlsOf(SelectSeq(i.pageMeta.images, HasUrl)) ELSE <<>>)
    \o (IF meta.present /\ Truthy(meta.ogImage) THEN <<meta.ogImage>> ELSE <<>>)
    \o (IF meta.present /\ Truthy(meta.twitterImage) /\ meta.twitterImage # meta.ogImage
        THEN <<meta.twitterImage>> ELSE <<>>)
    \o (IF Truthy(i.linkJson.thumbnail) /\ IsString(i.linkJson.thumbnail)
        THEN <<i.linkJson.thumbnail>> ELSE <<>>)

\* C25: the candidates are collected in the fixed order: the record's own
\* images, the supplemental page images, the Open-Graph image, the Twitter
\* image (only when it differs from the Open-Graph URL), the legacy
\* thumbnail, a URL that two sources give being collected twice; and the
\* first-image fallback returns the first element of that sequence.
C25_CandidatesInFixedOrder ==
    CalledValid =>
        /\ UrlsOf(CandidatesOf(impl, inp)) = UrlsInFixedOrder(inp, MetaFields(impl, inp))
        /\ out.status = "ok" /\ out.reason = "fallback_first_image"
              => out.imageUrl = UrlsInFixedOrder(inp, MetaFields(impl, inp))[1]

\* the same for records that have page images or meta images but not both,
\* in the main implementation (not a claim: it bounds the divergence)
FixedOrderWithoutPageOrMeta ==
    (CalledValid /\ impl = "main"
        /\ (~inp.pageMeta.present \/ ~inp.linkJson.meta.present))
        => UrlsOf(CandidatesOf(impl, inp)) = UrlsInFixedOrder(inp, MetaFields(impl, inp))

\* the same for records without a thumbnail, in the variant (not a claim: it
\* bounds the divergence)
FixedOrderWithoutThumbnail ==
    (CalledValid /\ impl = "variant" /\ ~Truthy(inp.linkJson.thumbnail))
        => UrlsOf(CandidatesOf(impl, inp)) = UrlsInFixedOrder(inp, MetaFields(impl, inp))

----------------------------------------------------------------------------
(* C26, C27: the sum of scoreImage and its keyword component *)

\* |A n B| / |A u B|, 0 for two empty sets
OverlapOf(setA, setB) ==
    IF setA \cup setB = {} THEN 0
    ELSE (Cardinality(setA \cap setB) * Unit) \div Cardinality(setA \cup setB)

\* k tenths of the value v
Tenths(k, v) == (k * v) \div 10

\* the keywords of the array of which at least one token is among tokens
MatchedKeywords(keywordArray, tokens) ==
    { k \in DOMAIN keywordArray : tokenizeChars(keywordArray[k]) \cap tokens # {} }

\* matched / total, 0 without keywords
MatchRatio(keywordArray, tokens) ==
    IF Len(keywordArray) = 0 THEN 0
    ELSE (Cardinality(MatchedKeywords(keywordArray, tokens)) * Unit) \div Len(keywordArray)

\* the URL tokens and the alt/caption tokens of the image of the call c
UrlTokensIn(c) == extractUrlTokens(IF Truthy(c.image.url) THEN c.image.url ELSE <<>>)
AltTokensIn(c) == AltTokens(c.image)

\* the three relevance terms of the claim for the call c
RelevanceTerms(c) ==
    Tenths(6, OverlapOf(UrlTokensIn(c), c.linkTokens))
    + Tenths(3, OverlapOf(AltTokensIn(c), c.linkTokens))
    + Tenths(4, MatchRatio(c.keywords, UrlTokensIn(c) \cup AltTokensIn(c)))

\* C26: scoreImage (src/utils/imageSelector.js) returns exactly
\* 0.6 * (URL-token Jaccard) + 0.3 * (alt/caption Jaccard)
\* + 0.4 * (keyword match ratio) + the resolution bonus, which is 0.1 or 0,
\* without a clamp, so that every score is at least 0 and at most 1.4.
C26_ScoreIsWeightedSum ==
    (Returned("scoreImage") /\ impl = "main") =>
        /\ out.value - RelevanceTerms(inp) \in {0, Unit \div 10}
        /\ out.value >= 0
        /\ out.value <= (14 * Unit) \div 10

\* a candidate whose URL and alt text carry exactly the link tokens, with a
\* matching keyword and 200000 pixels, scored 1.4
C26_Witness ==
    /\ Returned("scoreImage")
    /\ impl = "main"
    /\ inp.image.url = UrlCatJpg
    /\ inp.image.alt = AltCatJpg
    /\ inp.linkTokens = {WordCat, WordJpg}
    /\ inp.keywords = <<KeywordCat>>
    /\ out.value = (14 * Unit) \div 10

\* the keyword component of the score: what the keywords add to the score of
\* the same image and link tokens without keywords
KeywordPart(score, c) == score - ScoreImageOf(impl, [c EXCEPT !.keywords = <<>>])

\* the keywords of the array that give no token
TokenlessKeywords(keywordArray) ==
    { k \in DOMAIN keywordArray : tokenizeChars(keywordArray[k]) = {} }

\* C27: the keyword component of scoreImage (src/utils/imageSelector.js) is
\* 0.4 * matched/total, where total is the number of keywords supplied and a
\* keyword is matched exactly when at least one of its tokens is among the
\* candidate's URL tokens or alt/caption tokens; it is 0 without keywords, and
\* a keyword that gives no token (too short, a stop-word, not a string)
\* counts in total and is never matched.
C27_KeywordMatchRatio ==
    (Returned("scoreImage") /\ impl = "main") =>
        /\ KeywordPart(out.value, inp)
              = Tenths(4, MatchRatio(inp.keywords, UrlTokensIn(inp) \cup AltTokensIn(inp)))
        /\ Len(inp.keywords) = 0 => KeywordPart(out.value, inp) = 0
        /\ KeywordPart(out.value, inp) * Len(inp.keywords)
              <= Tenths(4, Unit) * (Len(inp.keywords)
                                     - Cardinality(TokenlessKeywords(inp.keywords)))

\* of two keywords the first, a stop-word, gave no token and the second
\* matched through the alt text alone: the component is 0.4 * 1/2
C27_Witness ==
    /\ Returned("scoreImage")
    /\ impl = "main"
    /\ inp.image.url = UrlDog
    /\ inp.image.alt = AltBigRedCat
    /\ inp.keywords = <<KeywordThe, KeywordCat>>
    /\ KeywordPart(out.value, inp) = Tenths(4, Unit \div 2)

----------------------------------------------------------------------------
(* C28: the tokens of a URL *)

\* the path of a URL string: the pathname when the URL parses, the string
\* itself when it does not (a relative path)
PathOfUrl(url) == IF UrlParses(url) THEN Pathname(url) ELSE url

\* the tokens of every fragment of the path between slashes, hyphens and
\* underscores
FragmentTokens(path) ==
    UNION { tokenizeChars(fragment) :
              fragment \in Range(SplitEach(path, {"/", "-", "_"})) }

\* C28: extractUrlTokens never throws; for every URL string, whether or not
\* it parses as an absolute URL, the result holds the tokens of every
\* fragment obtained by splitting the path on / and each segment on - and _;
\* a missing or non-string URL gives the empty set.
C28_UrlTokensOfEveryFragment ==
    Returned("extractUrlTokens") =>
        /\ out.status = "value"
        /\ NoText(inp.url) => out.value = {}
        /\ ~NoText(inp.url) => FragmentTokens(PathOfUrl(inp.url)) \subseteq out.value

\* the same for the URLs that parse, in the main implementation (not a claim:
\* it bounds the divergence)
ParsedUrlTokensOfEveryFragment ==
    (Returned("extractUrlTokens") /\ impl = "main"
        /\ (NoText(inp.url) \/ UrlParses(inp.url)))
        => /\ out.status = "value"
           /\ NoText(inp.url) => out.value = {}
           /\ ~NoText(inp.url) => FragmentTokens(PathOfUrl(inp.url)) \subseteq out.value

----------------------------------------------------------------------------
(* C29, C30: calls without caching, and the cache key *)

\* C29: a selectPreviewImage call with useCache=false neither reads nor
\* writes the cache: it returns what the call computes from its arguments,
\* even when the cache or the mirror holds an entry under the record's key,
\* and the in-process cache and the mirrored items are after the call what
\* they were before it.
C29_UncachedCallLeavesCache ==
    [][ (SelectStep /\ ~inp'.options.useCache)
            => /\ out' = Fresh(inp')
               /\ cache' = cache
               /\ ls' = ls ]_vars

\* a call without caching returned its own result while the in-process cache
\* held another result under its key and the mirror held an item under it
C29_Witness ==
    /\ CalledValid
    /\ ~inp.options.useCache
    /\ browser
    /\ CacheKey(inp.linkJson) \in DOMAIN cache
    /\ CacheKey(inp.linkJson) \in DOMAIN ls
    /\ cache[CacheKey(inp.linkJson)] # out
    /\ out = Fresh(inp)

\* the valid records with the url u that were selected with caching since
\* the cache was last cleared
SelectedWithUrl(h, u) == { r \in DOMAIN h : ~InvalidLink(r) /\ r.url = u }

\* the step is a call with caching for a valid record
CachingStep ==
    /\ SelectStep
    /\ inp'.options.useCache
    /\ ~InvalidLink(inp'.linkJson)

\* C30: the cache key is the record's url alone when the url is not empty,
\* and the JSON encoding of the record otherwise: once a call with caching
\* has stored a result for a url, every later call with caching whose record
\* has that url returns the stored result, whatever its title, keywords,
\* images, meta, pageMeta and options are, until clearCache; the entry is
\* kept under the url, and that of a record without url under its encoding.
C30_KeyIsUrlAlone ==
    [][ /\ (CachingStep /\ Truthy(inp'.linkJson.url))
            => /\ \A r \in SelectedWithUrl(hist, inp'.linkJson.url) : out' = hist[r]
               /\ [url |-> inp'.linkJson.url] \in DOMAIN cache'
               /\ cache'[[url |-> inp'.linkJson.url]] = out'
        /\ (CachingStep /\ ~Truthy(inp'.linkJson.url))
            => /\ inp'.linkJson \in DOMAIN hist => out' = hist[inp'.linkJson]
               /\ [json |-> Stringify(inp'.linkJson)] \in DOMAIN cache'
               /\ cache'[[json |-> Stringify(inp'.linkJson)]] = out' ]_vars

\* a call with caching for a record with images and a page returned the
\* placeholder result stored for the image-less record of the same url
C30_Witness ==
    /\ CalledValid
    /\ inp.options.useCache
    /\ inp.linkJson = RecordCat
    /\ inp.pageMeta.present
    /\ RecordBare \in DOMAIN hist
    /\ out = hist[RecordBare]
    /\ out # Fresh(inp)
    /\ cache[[url |-> UrlArticle]] = out

====
